---- MODULE Spec2Model ----
(***************************************************************************)
(* AI-Werewolf: the two in-process reasoning objects of one player agent,  *)
(* AIMemorySystem and WerewolfCommunicationSystem                          *)
(* (src/shared/lib/src/werewolfCommunicationSystem.ts), and the            *)
(* PlayerServer that owns them (src/unnamed/part_000).                     *)
(*                                                                         *)
(* Conventions of the translation                                          *)
(*  - A JavaScript string is a sequence of one-character tokens.  A CJK    *)
(*    character is written as its pinyin (the character is given in the    *)
(*    comment of the definition); String.includes is the substring search  *)
(*    Includes, toLowerCase is ToLower.                                    *)
(*  - confidence, relevance and role scores are held in hundredths         *)
(*    (0.35 is 35); a product relevance*confidence is held in              *)
(*    ten-thousandths.  That arithmetic is exact: the rounding error of    *)
(*    IEEE doubles (about 1e-16) is not represented.  The team score of    *)
(*    makeTeamDecision is computed in doubles (see TeamScore).             *)
(*  - Array.prototype.sort is stable (ECMAScript 2019).                    *)
(*  - An insertion-ordered Map is a sequence of its entries in insertion   *)
(*    order; Record<Round, T[]> is a sequence indexed by round (integer    *)
(*    keys are enumerated in ascending order).                             *)
(*  - The entry id memory_<Date.now()>_<random> is unique per insertion    *)
(*    and is modelled by a serial number; the id and the timestamp of a    *)
(*    message are read by no operation and are left out.                   *)
(*  - Player ids are positive integers (ChatDisplay.tsx:39 treats a        *)
(*    falsy playerId as absent).                                           *)
(*  - A call that throws (a TypeError) is recorded with threw = TRUE and   *)
(*    changes nothing.                                                     *)
(*  - The inputs of the memory system are chosen so that no comparison the *)
(*    code makes on them is decided by the rounding of doubles.            *)
(***************************************************************************)
EXTENDS Integers, Sequences, FiniteSets, TLC

VARIABLES
    memories,              \* AIMemorySystem.memories
    playerProfiles,        \* AIMemorySystem.playerProfiles, in insertion order
    gameContext,           \* AIMemorySystem.gameContext
    nextId,                \* serial of the next memory entry
    messages,              \* WerewolfCommunicationSystem.messages
    teamDecisions,         \* WerewolfCommunicationSystem.teamDecisions
    communicationHistory,  \* WerewolfCommunicationSystem.communicationHistory, in insertion order
    ret,                   \* the last call: its name, arguments and result
    trace,                 \* what the last call did to the memory store, step by step
    nOps,                  \* number of calls made so far
    pending,               \* the call the caller is about to make (SpecNegotiate)
    server                 \* PlayerServer: role, playerId, teammates, and which systems exist

vars == <<memories, playerProfiles, gameContext, nextId, messages, teamDecisions,
          communicationHistory, ret, trace, nOps, pending, server>>

memVars == <<memories, playerProfiles, gameContext>>
commVars == <<messages, teamDecisions, communicationHistory>>

-----------------------------------------------------------------------------
(* Bounds of the model *)

\* calls explored by Spec (the memory system on single speeches and small vote tables)
MaxOps == 3
\* calls explored by SpecEvict (the memory system under whole-table batches)
MaxEvictOps == 5
\* longest suggestion list handed to negotiateKillTarget
MaxSuggestions == 4

(* Program constants *)

\* if (this.memories.length > 100)
MemoryCap == 100
\* .slice(0, 80)
MemoryKeep == 80

-----------------------------------------------------------------------------
(* Strings *)

Min(a, b) == IF a < b THEN a ELSE b

\* String.prototype.includes
Includes(s, sub) ==
    \E i \in 1..(Len(s) - Len(sub) + 1) : SubSeq(s, i, i + Len(sub) - 1) = sub

\* String.prototype.toLowerCase: Latin capitals are lowered, every other character is kept
LowerChar(c) ==
    CASE c = "A" -> "a"
      [] c = "B" -> "b"
      [] c = "W" -> "w"
      [] OTHER -> c

ToLower(s) == [i \in 1..Len(s) |-> LowerChar(s[i])]

\* Array.prototype.join
RECURSIVE Join(_, _)
Join(parts, sep) ==
    IF Len(parts) = 0 THEN <<>>
    ELSE IF Len(parts) = 1 THEN parts[1]
    ELSE parts[1] \o sep \o Join(Tail(parts), sep)

Digit(d) ==
    CASE d = 0 -> "0" [] d = 1 -> "1" [] d = 2 -> "2" [] d = 3 -> "3" [] d = 4 -> "4"
      [] d = 5 -> "5" [] d = 6 -> "6" [] d = 7 -> "7" [] d = 8 -> "8" [] OTHER -> "9"

\* Number.prototype.toString of a natural number (a player id, a round, a percentage)
RECURSIVE NumStr(_)
NumStr(n) == IF n < 10 THEN <<Digit(n)>> ELSE Append(NumStr(n \div 10), Digit(n % 10))

\* the decimal rendering of a value held in hundredths that is a multiple of 0.1 below 1
TenthStr(c) == <<"0", ".", Digit(c \div 10)>>

\* Array.prototype.flat over Object.values(record)
RECURSIVE Flatten(_)
Flatten(ss) == IF Len(ss) = 0 THEN <<>> ELSE ss[1] \o Flatten(Tail(ss))

\* the markers the code searches for
LangRen == <<"lang", "ren">>                         \* 狼人
Sha == <<"sha">>                                     \* 杀
YuYanJia == <<"yu", "yan", "jia">>                   \* 预言家
ChaYan == <<"cha", "yanx">>                          \* 查验
NvWu == <<"nv", "wu">>                               \* 女巫
Yao == <<"yao">>                                     \* 药
TouPiao == <<"tou", "piao">>                         \* 投票
ChuJu == <<"chu", "ju">>                             \* 出局
ZuoWan == <<"zuo", "wan">>                           \* 昨晚
YeLi == <<"ye", "li">>                               \* 夜里
WoShiYuYanJia == <<"wo", "shi", "yu", "yan", "jia">>          \* 我是预言家
WoBuShiYuYanJia == <<"wo", "bu", "shi", "yu", "yan", "jia">>  \* 我不是预言家
WoShiNvWu == <<"wo", "shi", "nv", "wu">>             \* 我是女巫
WoBuShiNvWu == <<"wo", "bu", "shi", "nv", "wu">>     \* 我不是女巫
WoShiCunMin == <<"wo", "shi", "cun", "min">>         \* 我是村民
HaoRen == <<"hao", "ren">>                           \* 好人
BuQueDing == <<"bu", "que", "ding">>                 \* 不确定
KeNeng == <<"ke", "neng">>                           \* 可能
KeYi == <<"ke", "yi">>                               \* 可疑
ZuoWanWoChaLe == <<"zuo", "wan", "wo", "cha", "le">> \* 昨晚我查了
YaoShui == <<"yao", "shui">>                         \* 药水
JiuRen == <<"jiu", "ren">>                           \* 救人
DuSi == <<"du", "si">>                               \* 毒死
RenWei == <<"renx", "wei">>                          \* 认为
HuaiYi == <<"huai", "yi">>                           \* 怀疑
ShenZhi == <<"shen", "zhi">>                         \* 神职
WeiXie == <<"weix", "xie">>                          \* 威胁

\* the keywords extractSpeechInsights pushes
KwWolf == <<"lang", "ren", "xiang", "guan">>         \* 狼人相关
KwSeer == <<"yu", "yan", "jia", "xiang", "guan">>    \* 预言家相关
KwWitch == <<"nv", "wu", "xiang", "guan">>           \* 女巫相关
KwVote == <<"tou", "piao", "xiang", "guan">>         \* 投票相关
KwNight == <<"ye", "jian", "xin", "xi">>             \* 夜间信息

\* 一般发言
GeneralSpeech == <<"yix", "ban", "fa", "yan">>
\* 经常跟票，可能是狼人或保守村民
FollowerText ==
    <<"jing", "chang", "gen", "piao", ",", "ke", "neng", "shi", "lang", "ren",
      "huo", "bao", "shou", "cun", "min">>
\* 投票分散，可能在搅局
ScatterText == <<"tou", "piao", "fen", "san", ",", "ke", "neng", "zai", "jiao", "ju">>

-----------------------------------------------------------------------------
(* AIMemorySystem: the store *)

NoPlayer == 0

\* relevance * confidence, the key of both sorts
Score(m) == m.relevance * m.confidence

\* the entries of s whose score is v, in their order in s
WithScore(s, v) == SelectSeq(s, LAMBDA m : Score(m) = v)

RECURSIVE ByScoreDesc(_, _)
ByScoreDesc(s, vals) ==
    IF vals = {} THEN <<>>
    ELSE LET v == CHOOSE x \in vals : \A y \in vals : y <= x
         IN WithScore(s, v) \o ByScoreDesc(s, vals \ {v})

\* a variant that leaves the store in insertion order (the cut then keeps the oldest)
Unsorted(s) == s

\* s.sort((a, b) => b.relevance * b.confidence - a.relevance * a.confidence):
\* descending by score, entries of equal score keep their order
SortByScore(s) == ByScoreDesc(s, {Score(s[i]) : i \in 1..Len(s)})

\* the store after memories.push(memory)
Pushed(mem, memory) == Append(mem, memory)

\* a variant that never cuts
Untruncated(pushed) == pushed

\* a variant that cuts one entry late
TruncatedLate(pushed) ==
    IF Len(pushed) > MemoryCap + 1
    THEN SubSeq(SortByScore(pushed), 1, MemoryKeep)
    ELSE pushed

\* a variant that cuts to the newest MemoryKeep entries without sorting
TruncatedToNewest(pushed) ==
    IF Len(pushed) > MemoryCap
    THEN SubSeq(pushed, Len(pushed) - MemoryKeep + 1, Len(pushed))
    ELSE pushed

\* the store addMemory leaves: the pushed store, cut to the best MemoryKeep when it exceeds MemoryCap
Truncated(pushed) ==
    IF Len(pushed) > MemoryCap
    THEN SubSeq(SortByScore(pushed), 1, MemoryKeep)
    ELSE pushed

\* One running call on the store: mem is the store, id the next serial, steps one
\* record per addMemory of the call (the entry, the length of the store right after the
\* push and on return, whether the entry is in the store on return, how many entries
\* the call dropped), evictPushed and evictKept the store right after the push and on
\* return of the last addMemory of the call that truncated.
StartCall == [mem |-> memories, id |-> nextId, steps |-> <<>>,
              evictPushed |-> <<>>, evictKept |-> <<>>]

InSeq(x, s) == \E i \in 1..Len(s) : s[i] = x

\* the record of one addMemory: the entry, the store right after the push, the store on return
Settled(st, memory, pushed, kept) ==
    [mem |-> kept, id |-> st.id + 1,
     steps |-> Append(st.steps,
                      [entry |-> memory, pushedLen |-> Len(pushed), keptLen |-> Len(kept),
                       present |-> InSeq(memory, kept),
                       dropped |-> IF kept = pushed THEN 0
                                   ELSE Cardinality({i \in 1..Len(pushed) :
                                                        ~InSeq(pushed[i], kept)})]),
     evictPushed |-> IF Len(kept) < Len(pushed) THEN pushed ELSE st.evictPushed,
     evictKept |-> IF Len(kept) < Len(pushed) THEN kept ELSE st.evictKept]

PushAndTruncate(st, memory, pushed) == Settled(st, memory, pushed, Truncated(pushed))

\* addMemory(params) in round `round`
AddMemory(st, round, params) ==
    PushAndTruncate(st,
                    [id |-> st.id, round |-> round, type |-> params.type,
                     playerId |-> params.playerId, content |-> params.content,
                     confidence |-> params.confidence, relevance |-> params.relevance,
                     source |-> params.source],
                    Pushed(st.mem,
                           [id |-> st.id, round |-> round, type |-> params.type,
                            playerId |-> params.playerId, content |-> params.content,
                            confidence |-> params.confidence, relevance |-> params.relevance,
                            source |-> params.source]))

\* the rest of a loop of addMemory over paramsSeq, whose first entry got the serial
\* `first`: the next element is the one after those already given a serial
RECURSIVE AddFrom(_, _, _, _)
AddFrom(st, round, paramsSeq, first) ==
    IF st.id - first >= Len(paramsSeq) THEN st
    ELSE AddFrom(AddMemory(st, round, paramsSeq[st.id - first + 1]), round, paramsSeq, first)

\* addMemory for each element of paramsSeq, in order
AddAll(st, round, paramsSeq) == AddFrom(st, round, paramsSeq, st.id)

-----------------------------------------------------------------------------
(* AIMemorySystem: analyzeSpeech *)

BucketHit(content, a, b) == Includes(content, a) \/ Includes(content, b)

\* a variant that adds 0.1 per marker found, not per bucket, and does not cap the sum
ExtractSpeechInsightsPerMarker(speech) ==
    LET content == ToLower(speech.content)
        markers == <<LangRen, Sha, YuYanJia, ChaYan, NvWu, Yao, TouPiao, ChuJu, ZuoWan, YeLi>>
        found == SelectSeq(markers, LAMBDA m : Includes(content, m))
    IN [summary |-> NumStr(speech.playerId) \o <<"haox", ":", " ">> \o GeneralSpeech,
        confidence |-> 50 + 10 * Len(found),
        keywords |-> found]

\* extractSpeechInsights
ExtractSpeechInsights(speech) ==
    LET content == ToLower(speech.content)
        k1 == IF BucketHit(content, LangRen, Sha) THEN <<KwWolf>> ELSE <<>>
        k2 == IF BucketHit(content, YuYanJia, ChaYan) THEN <<KwSeer>> ELSE <<>>
        k3 == IF BucketHit(content, NvWu, Yao) THEN <<KwWitch>> ELSE <<>>
        k4 == IF BucketHit(content, TouPiao, ChuJu) THEN <<KwVote>> ELSE <<>>
        k5 == IF BucketHit(content, ZuoWan, YeLi) THEN <<KwNight>> ELSE <<>>
        keywords == k1 \o k2 \o k3 \o k4 \o k5
        confidence == 50 + 10 * Len(keywords)
    IN [summary |-> NumStr(speech.playerId) \o <<"haox", ":", " ">> \o
                    (IF Len(keywords) > 0 THEN Join(keywords, <<",", " ">>) ELSE GeneralSpeech),
        confidence |-> Min(confidence, 100),
        keywords |-> keywords]

\* a variant that boosts the relevance for a keyword of any bucket
CalculateRelevanceBoostingAnyKeyword(ctx, playerId, keywords) ==
    LET base == IF InSeq(playerId, ctx.teammates) THEN (50 * 7) \div 10 ELSE 50
        boost == IF Len(keywords) > 0 THEN 30 ELSE 0
    IN Min(base + boost, 100)

\* calculateRelevance
CalculateRelevance(ctx, playerId, keywords) ==
    LET base == IF InSeq(playerId, ctx.teammates) THEN (50 * 7) \div 10 ELSE 50
        boost == IF \E i \in 1..Len(keywords) :
                        \/ Includes(keywords[i], LangRen)
                        \/ Includes(keywords[i], YuYanJia)
                        \/ Includes(keywords[i], NvWu)
                 THEN 30 ELSE 0
    IN Min(base + boost, 100)

ProfileIndex(profiles, playerId) ==
    IF \E i \in 1..Len(profiles) : profiles[i].playerId = playerId
    THEN CHOOSE i \in 1..Len(profiles) : profiles[i].playerId = playerId
    ELSE 0

\* a variant that stamps a profile with the round only when it creates it
UpdatePlayerProfileStampingOnce(profiles, ctx, playerId, analysis) ==
    LET i == ProfileIndex(profiles, playerId)
        old == IF i > 0 THEN profiles[i]
               ELSE [playerId |-> playerId, suspectedRole |-> "none", confidence |-> 0,
                     behaviors |-> <<>>, contradictions |-> <<>>, alliances |-> <<>>,
                     threats |-> <<>>, lastUpdated |-> ctx.currentRound]
        behaviors == IF Len(analysis.keywords) > 0
                     THEN Append(old.behaviors,
                                 [round |-> ctx.currentRound, keywords |-> analysis.keywords])
                     ELSE old.behaviors
        new == [old EXCEPT !.behaviors = behaviors]
    IN IF i > 0 THEN [profiles EXCEPT ![i] = new] ELSE Append(profiles, new)

\* a variant that also files the keywords of the analysis under the contradictions of
\* the profile
UpdatePlayerProfileFilingContradictions(profiles, ctx, playerId, analysis) ==
    LET i == ProfileIndex(profiles, playerId)
        old == IF i > 0 THEN profiles[i]
               ELSE [playerId |-> playerId, suspectedRole |-> "none", confidence |-> 0,
                     behaviors |-> <<>>, contradictions |-> <<>>, alliances |-> <<>>,
                     threats |-> <<>>, lastUpdated |-> ctx.currentRound]
        behaviors == IF Len(analysis.keywords) > 0
                     THEN Append(old.behaviors,
                                 [round |-> ctx.currentRound, keywords |-> analysis.keywords])
                     ELSE old.behaviors
        new == [old EXCEPT !.behaviors = behaviors, !.lastUpdated = ctx.currentRound,
                           !.contradictions = Append(@, analysis.keywords)]
    IN IF i > 0 THEN [profiles EXCEPT ![i] = new] ELSE Append(profiles, new)

\* updatePlayerProfile
UpdatePlayerProfile(profiles, ctx, playerId, analysis) ==
    LET i == ProfileIndex(profiles, playerId)
        old == IF i > 0 THEN profiles[i]
               ELSE [playerId |-> playerId, suspectedRole |-> "none", confidence |-> 0,
                     behaviors |-> <<>>, contradictions |-> <<>>, alliances |-> <<>>,
                     threats |-> <<>>, lastUpdated |-> ctx.currentRound]
        behaviors == IF Len(analysis.keywords) > 0
                     THEN Append(old.behaviors,
                                 [round |-> ctx.currentRound, keywords |-> analysis.keywords])
                     ELSE old.behaviors
        new == [old EXCEPT !.behaviors = behaviors, !.lastUpdated = ctx.currentRound]
    IN IF i > 0 THEN [profiles EXCEPT ![i] = new] ELSE Append(profiles, new)

\* the speeches of one player over all rounds, in round order
PlayerSpeeches(allSpeeches, playerId) ==
    SelectSeq(Flatten(allSpeeches), LAMBDA s : s.playerId = playerId)

\* 角色声明前后矛盾
RoleClaimText == <<"jue", "se", "sheng", "ming", "qian", "hou", "mao", "dun">>
\* 查验结果可能矛盾
CheckResultText == <<"cha", "yanx", "jie", "guo", "ke", "neng", "mao", "dun">>

\* what one past speech adds to the contradictions of the current one
ContradictionsWith(currentContent, speech, pastSpeech) ==
    IF pastSpeech.content = speech.content THEN <<>>
    ELSE LET pastContent == ToLower(pastSpeech.content)
         IN (IF Includes(currentContent, WoShiYuYanJia) /\ Includes(pastContent, WoBuShiYuYanJia)
             THEN <<RoleClaimText>> ELSE <<>>)
            \o
            (IF Includes(currentContent, WoShiNvWu) /\ Includes(pastContent, WoBuShiNvWu)
             THEN <<RoleClaimText>> ELSE <<>>)
            \o
            (IF Includes(currentContent, ChaYan) /\ Includes(pastContent, ChaYan)
             THEN <<CheckResultText>> ELSE <<>>)

RECURSIVE ContradictionsOver(_, _, _)
ContradictionsOver(currentContent, speech, past) ==
    IF Len(past) = 0 THEN <<>>
    ELSE ContradictionsWith(currentContent, speech, past[1])
         \o ContradictionsOver(currentContent, speech, Tail(past))

\* detectContradictions
DetectContradictions(playerId, speech, allSpeeches) ==
    ContradictionsOver(ToLower(speech.content), speech, PlayerSpeeches(allSpeeches, playerId))

-----------------------------------------------------------------------------
(* AIMemorySystem: analyzeVotingPattern *)

\* the keys of the playerVotes map, in the order of each voter's first vote
RECURSIVE FirstOccurrences(_, _)
FirstOccurrences(ids, seen) ==
    IF Len(ids) = 0 THEN <<>>
    ELSE IF InSeq(ids[1], seen) THEN FirstOccurrences(Tail(ids), seen)
    ELSE <<ids[1]>> \o FirstOccurrences(Tail(ids), Append(seen, ids[1]))

Voters(allVotes) ==
    LET flat == Flatten(allVotes)
    IN FirstOccurrences([i \in 1..Len(flat) |-> flat[i].voterId], <<>>)

VotesOf(allVotes, playerId) ==
    SelectSeq(Flatten(allVotes), LAMBDA v : v.voterId = playerId)

\* Object.values(allVotes).find(round => round.some(v => same voter and same target)):
\* the index of the first such round, 0 when there is none
FoundRound(allVotes, vote) ==
    LET has(r) == \E j \in 1..Len(allVotes[r]) :
                      /\ allVotes[r][j].voterId = vote.voterId
                      /\ allVotes[r][j].targetId = vote.targetId
    IN IF \E r \in 1..Len(allVotes) : has(r)
       THEN CHOOSE r \in 1..Len(allVotes) : has(r) /\ \A q \in 1..(r - 1) : ~has(q)
       ELSE 0

\* roundVotes.findIndex(v => v.voterId === vote.voterId), counted from 0
FindIndex(roundVotes, voterId) ==
    (CHOOSE j \in 1..Len(roundVotes) :
        /\ roundVotes[j].voterId = voterId
        /\ \A k \in 1..(j - 1) : roundVotes[k].voterId # voterId) - 1

\* voteIndex > roundVotes.length / 2
InBackHalf(allVotes, vote) ==
    LET r == FoundRound(allVotes, vote)
    IN r > 0 /\ 2 * FindIndex(allVotes[r], vote.voterId) > Len(allVotes[r])

\* detectFollowerBehavior: followCount > playerVotes.length * 0.6
DetectFollowerBehavior(playerVotes, allVotes) ==
    LET followCount == Cardinality({i \in 1..Len(playerVotes) : InBackHalf(allVotes, playerVotes[i])})
    IN 10 * followCount > 6 * Len(playerVotes)

\* new Set(votes.map(v => v.targetId)).size === votes.length
IsScatter(playerVotes) ==
    Cardinality({playerVotes[i].targetId : i \in 1..Len(playerVotes)}) = Len(playerVotes)

\* a variant that looks for patterns in the votes of every voter, a single vote included
PatternsOfEveryVoter(playerId, allVotes) ==
    LET votes == VotesOf(allVotes, playerId)
    IN (IF DetectFollowerBehavior(votes, allVotes)
        THEN <<[playerId |-> playerId, description |-> FollowerText, confidence |-> 60]>>
        ELSE <<>>)
       \o
       (IF IsScatter(votes)
        THEN <<[playerId |-> playerId, description |-> ScatterText, confidence |-> 50]>>
        ELSE <<>>)

PatternsOf(playerId, allVotes) ==
    LET votes == VotesOf(allVotes, playerId)
    IN IF Len(votes) < 2 THEN <<>>
       ELSE (IF DetectFollowerBehavior(votes, allVotes)
             THEN <<[playerId |-> playerId, description |-> FollowerText, confidence |-> 60]>>
             ELSE <<>>)
            \o
            (IF IsScatter(votes)
             THEN <<[playerId |-> playerId, description |-> ScatterText, confidence |-> 50]>>
             ELSE <<>>)

RECURSIVE PatternsOver(_, _)
PatternsOver(voters, allVotes) ==
    IF Len(voters) = 0 THEN <<>>
    ELSE PatternsOf(voters[1], allVotes) \o PatternsOver(Tail(voters), allVotes)

\* extractVotingPatterns
ExtractVotingPatterns(allVotes) == PatternsOver(Voters(allVotes), allVotes)

VotePatternParams(pattern) ==
    [type |-> "vote_pattern", playerId |-> pattern.playerId, content |-> pattern.description,
     confidence |-> pattern.confidence, relevance |-> 80, source |-> "observation"]

-----------------------------------------------------------------------------
(* Doubles: the scores of analyzePlayerRole and of negotiateKillTarget *)

\* A double x is held as the pair [h, d] with
\* x = h/100 + d * (2^-57 / 25): h is x in hundredths and d its distance from h/100, so the
\* literal 0.4 (the double 0.4000000000000000222) is [40, 80] and 1 is [100, 0].  The pairs
\* of two doubles compare as the doubles do, h first and then d.
DblLess(a, b) == a.h < b.h \/ (a.h = b.h /\ a.d < b.d)

RECURSIVE PowMod(_, _)
\* 2^n modulo q, thirty binary places at a time; q is below 2^15
PowMod(n, q) ==
    IF n <= 30 THEN (2 ^ n) % q
    ELSE (PowMod(n - 30, q) * ((2 ^ 30) % q)) % q

Pow2(n) == 2 ^ n

\* 2^e <= m for a positive m = [h, d]
AtLeastPow2(m, e) ==
    IF e >= 0 THEN ~DblLess(m, [h |-> 100 * Pow2(e), d |-> 0])
    ELSE ~DblLess([h |-> m.h * Pow2(-e), d |-> m.d * Pow2(-e)], [h |-> 100, d |-> 0])

\* the binary exponent of a positive m with 2^-5 <= m < 2^5
Exponent(m) == CHOOSE e \in -5..4 : AtLeastPow2(m, e) /\ (e = 4 \/ ~AtLeastPow2(m, e + 1))

\* m modulo q, both in units of 2^-57 / 25 (h/100 is h * 2^55 units)
Residue(m, q) == ((((m.h % q) * PowMod(55, q)) % q) + (m.d % q)) % q

\* m rounded to a multiple of q: down when its residue r is below half of q or is the half
\* with an even mantissa below, up otherwise
RoundBy(m, q, r, odd) ==
    IF 2 * r < q \/ (2 * r = q /\ ~odd)
    THEN [h |-> m.h, d |-> m.d - r]
    ELSE [h |-> m.h, d |-> m.d - r + q]

RoundInUnit(m, q) == RoundBy(m, q, Residue(m, q), Residue(m, 2 * q) >= q)

\* a positive m rounded to the nearest double, ties to the even mantissa; the unit in the
\* last place of the doubles of m's exponent e is 2^(e-52)
RoundPositive(m) == RoundInUnit(m, 25 * Pow2(Exponent(m) + 5))

\* the double nearest to the real number m
RoundToDouble(m) ==
    IF m.h = 0 /\ m.d = 0 THEN m
    ELSE IF DblLess(m, [h |-> 0, d |-> 0])
         THEN LET p == RoundPositive([h |-> -m.h, d |-> -m.d]) IN [h |-> -p.h, d |-> -p.d]
         ELSE RoundPositive(m)

\* a + b in doubles
DblAdd(a, b) == RoundToDouble([h |-> a.h + b.h, d |-> a.d + b.d])

-----------------------------------------------------------------------------
(* AIMemorySystem: deduceRoles *)

Count(speeches, a, b) ==
    Cardinality({i \in 1..Len(speeches) :
                    \/ Includes(ToLower(speeches[i].content), a)
                    \/ Includes(ToLower(speeches[i].content), b)})

\* the literals 0.1, 0.2, 0.3 and 0.8 of analyzePlayerRole and deduceRoles
Zero == [h |-> 0, d |-> 0]
PointOne == [h |-> 10, d |-> 20]
PointTwo == [h |-> 20, d |-> 40]
PointThree == [h |-> 30, d |-> -40]
PointEight == [h |-> 80, d |-> 160]

RECURSIVE Accumulate(_, _)
\* score += step, k times from 0, in doubles
Accumulate(step, k) == IF k = 0 THEN Zero ELSE DblAdd(Accumulate(step, k - 1), step)

\* Math.min(a, b)
DblMin(a, b) == IF DblLess(b, a) THEN b ELSE a

\* scores.sort((a, b) => b.score - a.score)[0]: the first of the highest
BestGuess(scores) ==
    scores[CHOOSE k \in 1..Len(scores) :
              /\ \A j \in 1..Len(scores) : ~DblLess(scores[k].score, scores[j].score)
              /\ \A j \in 1..(k - 1) : DblLess(scores[j].score, scores[k].score)]

\* { role: bestGuess.role, confidence: Math.min(bestGuess.score, 0.8) }
Guess(bestGuess) == [role |-> bestGuess.role, confidence |-> DblMin(bestGuess.score, PointEight)]

\* analyzePlayerRole; the scores are doubles
AnalyzePlayerRole(profiles, playerId, allSpeeches) ==
    LET speeches == PlayerSpeeches(allSpeeches, playerId)
        i == ProfileIndex(profiles, playerId)
        hedged == Accumulate(PointOne, Count(speeches, BuQueDing, KeNeng))
        werewolfScore == IF i > 0 /\ Len(profiles[i].contradictions) > 1
                         THEN DblAdd(hedged, PointThree)
                         ELSE hedged
        seerScore == Accumulate(PointTwo, Count(speeches, YuYanJia, ChaYan))
        witchScore == Accumulate(PointTwo, Count(speeches, NvWu, Yao))
        villagerScore == Accumulate(PointOne, Count(speeches, WoShiCunMin, HaoRen))
    IN Guess(BestGuess(<<[role |-> "werewolf", score |-> werewolfScore],
                         [role |-> "seer", score |-> seerScore],
                         [role |-> "witch", score |-> witchScore],
                         [role |-> "villager", score |-> villagerScore]>>))

\* String(x) of a confidence: a double that is the nearest one to its hundredth prints as the
\* tenth, the sums that drifted print all their digits
DoubleStr(x) ==
    IF x = RoundToDouble([h |-> x.h, d |-> 0]) THEN TenthStr(x.h)
    ELSE IF x = [h |-> 30, d |-> 160] THEN <<"0", ".", "30000000000000004">>
    ELSE IF x = [h |-> 60, d |-> 320] THEN <<"0", ".", "6000000000000001">>
    ELSE <<"0", ".", "7999999999999999">>

\* 推断角色: <role> (置信度: <confidence>)
DeductionText(d) ==
    <<"tui", "duan", "jue", "se", ":", " ", d.role, " ", "(", "zhix", "xin", "dux", ":", " ">>
    \o DoubleStr(d.confidence) \o <<")">>

\* a variant of the loop body that does not skip self
RecordSelfToo(ctx, id, deduction, rest) ==
    IF DblLess(PointThree, deduction.confidence)
    THEN <<[playerId |-> id, role |-> deduction.role, confidence |-> deduction.confidence]>>
         \o rest
    ELSE rest

\* one pass of the loop of deduceRoles: self is skipped, a deduction above 0.3 is recorded
RecordIfAbove(ctx, id, deduction, rest) ==
    IF id # ctx.myPlayerId /\ DblLess(PointThree, deduction.confidence)
    THEN <<[playerId |-> id, role |-> deduction.role, confidence |-> deduction.confidence]>>
         \o rest
    ELSE rest

\* the deductions deduceRoles records, in the order of alivePlayers
RECURSIVE Deductions(_, _, _, _)
Deductions(profiles, ctx, alivePlayers, allSpeeches) ==
    IF Len(alivePlayers) = 0 THEN <<>>
    ELSE RecordIfAbove(ctx, alivePlayers[1].id,
                  AnalyzePlayerRole(profiles, alivePlayers[1].id, allSpeeches),
                  Deductions(profiles, ctx, Tail(alivePlayers), allSpeeches))

\* the entry of a deduction; the store holds its confidence to the hundredth
DeductionParams(d) ==
    [type |-> "role_deduction", playerId |-> d.playerId, content |-> DeductionText(d),
     confidence |-> d.confidence.h, relevance |-> 90, source |-> "deduction"]

-----------------------------------------------------------------------------
(* AIMemorySystem: generateStrategy *)

\* getRelevantMemories
GetRelevantMemories(mem, ctx) ==
    SortByScore(SelectSeq(mem, LAMBDA m : /\ ~(ctx.currentRound - m.round > 3)
                                          /\ m.relevance > 50
                                          /\ m.confidence > 40))

\* Array.from(players.keys()).filter(pred).slice(0, 2)
FirstTwo(s) == SubSeq(s, 1, Min(2, Len(s)))

ProfileIds(profiles) == [i \in 1..Len(profiles) |-> profiles[i].playerId]

\* generateWerewolfStrategy: 伪装村民，寻找神职目标 / 作为狼人需要隐藏身份并消除威胁
GenerateWerewolfStrategy(profiles) ==
    [primaryStrategy |-> <<"disguise as villager, look for god-role targets">>,
     reasoning |-> <<"a wolf must hide and remove threats">>,
     targetPlayers |-> FirstTwo(ProfileIds(SelectSeq(profiles,
                           LAMBDA p : p.suspectedRole = "seer" \/ p.suspectedRole = "witch"))),
     riskLevel |-> "medium"]

\* generateSeerStrategy: 适时公布查验结果，引导投票 / 作为预言家需要在保护自己的同时传达信息
GenerateSeerStrategy(profiles) ==
    [primaryStrategy |-> <<"publish check results in time, steer the vote">>,
     reasoning |-> <<"a seer must pass information while staying safe">>,
     targetPlayers |-> FirstTwo(ProfileIds(SelectSeq(profiles,
                           LAMBDA p : p.suspectedRole = "werewolf"))),
     riskLevel |-> "high"]

\* generateWitchStrategy: 隐藏身份，关键时刻使用药水 / 作为女巫需要在合适时机使用能力
GenerateWitchStrategy(profiles) ==
    [primaryStrategy |-> <<"hide, use the potions at the key moment">>,
     reasoning |-> <<"a witch must use her ability at the right time">>,
     targetPlayers |-> <<>>,
     riskLevel |-> "low"]

\* generateVillagerStrategy: 分析发言，寻找逻辑漏洞 / 作为村民需要通过逻辑分析找出狼人
GenerateVillagerStrategy(profiles) ==
    [primaryStrategy |-> <<"analyse speeches, look for logical gaps">>,
     reasoning |-> <<"a villager finds the wolves by logic">>,
     targetPlayers |-> FirstTwo(ProfileIds(SelectSeq(profiles,
                           LAMBDA p : Len(p.contradictions) > 1))),
     riskLevel |-> "low"]

\* a variant whose dispatch has no final else: a villager is left with the initial strategy
StrategyForNamedRoles(ctx, profiles) ==
    IF ctx.myRole = "werewolf" THEN GenerateWerewolfStrategy(profiles)
    ELSE IF ctx.myRole = "seer" THEN GenerateSeerStrategy(profiles)
    ELSE IF ctx.myRole = "witch" THEN GenerateWitchStrategy(profiles)
    ELSE [primaryStrategy |-> <<>>, reasoning |-> <<>>, targetPlayers |-> <<>>,
          riskLevel |-> "medium"]

\* the dispatch of generateStrategy on this.gameContext.myRole
StrategyFor(ctx, profiles) ==
    IF ctx.myRole = "werewolf" THEN GenerateWerewolfStrategy(profiles)
    ELSE IF ctx.myRole = "seer" THEN GenerateSeerStrategy(profiles)
    ELSE IF ctx.myRole = "witch" THEN GenerateWitchStrategy(profiles)
    ELSE GenerateVillagerStrategy(profiles)

\* 策略: <primaryStrategy> | 理由: <reasoning>
StrategyParams(strategy) ==
    [type |-> "strategy", playerId |-> NoPlayer,
     content |-> <<"ce", "lve", ":", " ">> \o strategy.primaryStrategy
                 \o <<" ", "|", " ", "li", "you", ":", " ">> \o strategy.reasoning,
     confidence |-> 70, relevance |-> 100, source |-> "deduction"]

-----------------------------------------------------------------------------
(* AIMemorySystem: getMemorySummary, getThreatAssessment *)

\* 暂无重要记忆信息。
NoMemoryText == <<"no important memory">>

\* 第<round>轮: <content> (置信度: <Math.round(confidence * 100)>%)
SummaryLine(m) ==
    <<"di">> \o NumStr(m.round) \o <<"lun", ":", " ">> \o m.content
    \o <<" ", "(", "zhix", "xin", "dux", ":", " ">> \o NumStr(m.confidence) \o <<"%", ")">>

\* Array.prototype.slice(0, end): a negative end counts from the end of the array
SliceTo(s, end) ==
    SubSeq(s, 1, IF end < 0 THEN Len(s) + end ELSE Min(end, Len(s)))

\* a variant that lists the entries in the order of the store
ImportantMemoriesInStoreOrder(mem, maxEntries) ==
    SliceTo(SelectSeq(mem, LAMBDA m : m.relevance > 60 /\ m.confidence > 50), maxEntries)

\* the entries getMemorySummary lists
ImportantMemories(mem, maxEntries) ==
    SliceTo(SortByScore(SelectSeq(mem, LAMBDA m : m.relevance > 60 /\ m.confidence > 50)),
            maxEntries)

\* getMemorySummary
GetMemorySummaryText(mem, maxEntries) ==
    LET important == ImportantMemories(mem, maxEntries)
    IN IF Len(important) = 0 THEN NoMemoryText
       ELSE <<"important memories", ":", "\n">>
            \o Join([i \in 1..Len(important) |-> SummaryLine(important[i])], <<"\n">>)

\* the threat of one profile: level in hundredths and the reasons
ThreatOf(mem, ctx, profile) ==
    LET wolf == profile.suspectedRole = "werewolf" /\ ctx.myRole # "werewolf"
        contra == Len(profile.contradictions) > 2
        votingMemories == SelectSeq(mem, LAMBDA m : m.type = "vote_pattern"
                                                    /\ m.playerId = profile.playerId)
        voting == \E i \in 1..Len(votingMemories) : Includes(votingMemories[i].content, KeYi)
    IN [playerId |-> profile.playerId,
        threatLevel |-> (IF wolf THEN 80 ELSE 0) + (IF contra THEN 30 ELSE 0)
                        + (IF voting THEN 20 ELSE 0),
        reason |-> (IF wolf THEN <<"suspected wolf">> ELSE <<>>)
                   \o (IF contra THEN <<"contradicting speech">> ELSE <<>>)
                   \o (IF voting THEN <<"suspicious voting">> ELSE <<>>)]

\* the indices of keys, by key descending, equal keys in index order
RECURSIVE OrderDesc(_, _)
OrderDesc(keys, vals) ==
    IF vals = {} THEN <<>>
    ELSE LET v == CHOOSE x \in vals : \A y \in vals : y <= x
         IN SelectSeq([i \in 1..Len(keys) |-> i], LAMBDA i : keys[i] = v)
            \o OrderDesc(keys, vals \ {v})

\* getThreatAssessment
GetThreatAssessmentList(mem, ctx, profiles) ==
    LET all == [i \in 1..Len(profiles) |-> ThreatOf(mem, ctx, profiles[i])]
        listed == SelectSeq(all, LAMBDA t : t.playerId # ctx.myPlayerId /\ t.threatLevel > 30)
        capped == [i \in 1..Len(listed) |->
                      [listed[i] EXCEPT !.threatLevel = Min(listed[i].threatLevel, 100)]]
        order == OrderDesc([i \in 1..Len(capped) |-> capped[i].threatLevel],
                           {capped[i].threatLevel : i \in 1..Len(capped)})
    IN [k \in 1..Len(capped) |-> capped[order[k]]]

-----------------------------------------------------------------------------
(* AIMemorySystem: the calls.  Each call is computed once, as the record of what it  *)
(* leaves (st: the store with its bookkeeping, profiles, result), and the action     *)
(* installs that record.                                                             *)

NoTrace == [steps |-> <<>>, evictPushed |-> <<>>, evictKept |-> <<>>]
TraceOf(st) == [steps |-> st.steps, evictPushed |-> st.evictPushed, evictKept |-> st.evictKept]

\* new AIMemorySystem(myRole, myPlayerId, teammates)
NewMemorySystem(myRole, myPlayerId, teammates) ==
    /\ memories = <<>>
    /\ playerProfiles = <<>>
    /\ gameContext = [myRole |-> myRole, myPlayerId |-> myPlayerId, teammates |-> teammates,
                      currentRound |-> 1, currentPhase |-> "day"]
    /\ nextId = 1

\* new WerewolfCommunicationSystem()
NewCommunicationSystem ==
    /\ messages = <<>>
    /\ teamDecisions = <<>>
    /\ communicationHistory = <<>>

\* updateGameContext
UpdateGameContext(round, phase) ==
    /\ gameContext' = [gameContext EXCEPT !.currentRound = round, !.currentPhase = phase]
    /\ ret' = [op |-> "updateGameContext", args |-> [round |-> round, phase |-> phase],
               result |-> "void", threw |-> FALSE]
    /\ trace' = NoTrace
    /\ nOps' = nOps + 1
    /\ UNCHANGED <<memories, playerProfiles, nextId, commVars>>

SpeechParams(ctx, playerId, analysis) ==
    [type |-> "speech_analysis", playerId |-> playerId, content |-> analysis.summary,
     confidence |-> analysis.confidence,
     relevance |-> CalculateRelevance(ctx, playerId, analysis.keywords),
     source |-> "observation"]

\* 检测到矛盾: <contradictions.join('; ')>
ContradictionParams(playerId, contradictions) ==
    [type |-> "contradiction", playerId |-> playerId,
     content |-> <<"jianx", "ce", "dao", "mao", "dun", ":", " ">>
                 \o Join(contradictions, <<";", " ">>),
     confidence |-> 80, relevance |-> 90, source |-> "deduction"]

\* a variant that records one contradiction entry for each contradiction detected
RECURSIVE RecordEachContradiction(_, _, _, _)
RecordEachContradiction(st, round, playerId, contradictions) ==
    IF Len(contradictions) = 0 THEN st
    ELSE RecordEachContradiction(
             AddMemory(st, round, ContradictionParams(playerId, <<contradictions[1]>>)),
             round, playerId, Tail(contradictions))

\* the second half of analyzeSpeech: if (contradictions.length > 0) addMemory(...)
RecordContradictions(st, round, playerId, contradictions) ==
    IF Len(contradictions) > 0
    THEN AddMemory(st, round, ContradictionParams(playerId, contradictions))
    ELSE st

\* analyzeSpeech, as a function of the object and the arguments
AnalyzeSpeechCall(st, profiles, ctx, speech, allSpeeches) ==
    [st |-> RecordContradictions(
                AddMemory(st, ctx.currentRound,
                          SpeechParams(ctx, speech.playerId, ExtractSpeechInsights(speech))),
                ctx.currentRound, speech.playerId,
                DetectContradictions(speech.playerId, speech, allSpeeches)),
     profiles |-> UpdatePlayerProfile(profiles, ctx, speech.playerId,
                                      ExtractSpeechInsights(speech)),
     result |-> "void"]

AnalyzeSpeech(speech, allSpeeches, alivePlayers) ==
    \E call \in {AnalyzeSpeechCall(StartCall, playerProfiles, gameContext, speech, allSpeeches)} :
       /\ memories' = call.st.mem
       /\ nextId' = call.st.id
       /\ playerProfiles' = call.profiles
       /\ trace' = TraceOf(call.st)
       /\ ret' = [op |-> "analyzeSpeech",
                  args |-> [speech |-> speech, allSpeeches |-> allSpeeches],
                  result |-> call.result, threw |-> FALSE]
       /\ nOps' = nOps + 1
       /\ UNCHANGED <<gameContext, commVars>>

\* for (const pattern of patterns) addMemory(...)
AddPatterns(st, round, patterns) ==
    AddAll(st, round, [i \in 1..Len(patterns) |-> VotePatternParams(patterns[i])])

\* analyzeVotingPattern
AnalyzeVotingPattern(votes, allVotes, alivePlayers) ==
    \E st \in {AddPatterns(StartCall, gameContext.currentRound, ExtractVotingPatterns(allVotes))} :
       /\ memories' = st.mem
       /\ nextId' = st.id
       /\ trace' = TraceOf(st)
       /\ ret' = [op |-> "analyzeVotingPattern", args |-> [allVotes |-> allVotes],
                  result |-> "void", threw |-> FALSE]
       /\ nOps' = nOps + 1
       /\ UNCHANGED <<playerProfiles, gameContext, commVars>>

AddDeductions(st, round, deductions) ==
    AddAll(st, round, [i \in 1..Len(deductions) |-> DeductionParams(deductions[i])])

\* deduceRoles; the returned Map is the sequence of its entries
DeduceRoles(alivePlayers, allSpeeches) ==
    \E deductions \in {Deductions(playerProfiles, gameContext, alivePlayers, allSpeeches)} :
    \E st \in {AddDeductions(StartCall, gameContext.currentRound, deductions)} :
       /\ memories' = st.mem
       /\ nextId' = st.id
       /\ trace' = TraceOf(st)
       /\ ret' = [op |-> "deduceRoles",
                  args |-> [alivePlayers |-> alivePlayers, allSpeeches |-> allSpeeches],
                  result |-> deductions, threw |-> FALSE]
       /\ nOps' = nOps + 1
       /\ UNCHANGED <<playerProfiles, gameContext, commVars>>

\* generateStrategy
GenerateStrategy ==
    \E strategy \in {StrategyFor(gameContext, playerProfiles)} :
    \E st \in {AddMemory(StartCall, gameContext.currentRound, StrategyParams(strategy))} :
       /\ memories' = st.mem
       /\ nextId' = st.id
       /\ trace' = TraceOf(st)
       /\ ret' = [op |-> "generateStrategy", args |-> <<>>, result |-> strategy,
                  threw |-> FALSE]
       /\ nOps' = nOps + 1
       /\ UNCHANGED <<playerProfiles, gameContext, commVars>>

\* a variant that sorts the store itself
GetMemorySummarySortingTheStore(maxEntries) ==
    /\ memories' = SortByScore(memories)
    /\ ret' = [op |-> "getMemorySummary", args |-> [maxEntries |-> maxEntries],
               result |-> GetMemorySummaryText(memories, maxEntries), threw |-> FALSE]
    /\ trace' = NoTrace
    /\ nOps' = nOps + 1
    /\ UNCHANGED <<playerProfiles, gameContext, nextId, commVars>>

\* getMemorySummary
GetMemorySummary(maxEntries) ==
    /\ ret' = [op |-> "getMemorySummary", args |-> [maxEntries |-> maxEntries],
               result |-> GetMemorySummaryText(memories, maxEntries), threw |-> FALSE]
    /\ trace' = NoTrace
    /\ nOps' = nOps + 1
    /\ UNCHANGED <<memories, playerProfiles, gameContext, nextId, commVars>>

\* a variant that lists every profile but one's own, whatever its threat
GetThreatAssessmentOfEveryProfile ==
    /\ ret' = [op |-> "getThreatAssessment", args |-> <<>>,
               result |-> SelectSeq([i \in 1..Len(playerProfiles) |->
                                        ThreatOf(memories, gameContext, playerProfiles[i])],
                                    LAMBDA t : t.playerId # gameContext.myPlayerId),
               threw |-> FALSE]
    /\ trace' = NoTrace
    /\ nOps' = nOps + 1
    /\ UNCHANGED <<memories, playerProfiles, gameContext, nextId, commVars>>

\* getThreatAssessment
GetThreatAssessment ==
    /\ ret' = [op |-> "getThreatAssessment", args |-> <<>>,
               result |-> GetThreatAssessmentList(memories, gameContext, playerProfiles),
               threw |-> FALSE]
    /\ trace' = NoTrace
    /\ nOps' = nOps + 1
    /\ UNCHANGED <<memories, playerProfiles, gameContext, nextId, commVars>>

-----------------------------------------------------------------------------
(* WerewolfCommunicationSystem: negotiateKillTarget *)

\* 默认选择
DefaultChoice == <<"mo", "renx", "xuan", "ze">>

\* let bestScore = -1, in hundredths
InitialBestScore == -100

\* the position of target among the keys of the Map, 0 when it is not a key
TargetIndex(analysis, target) ==
    IF \E i \in 1..Len(analysis) : analysis[i].target = target
    THEN CHOOSE i \in 1..Len(analysis) : analysis[i].target = target
    ELSE 0

\* one turn of the first loop of analyzeTargetSuggestions
Tally(analysis, suggestion) ==
    LET i == TargetIndex(analysis, suggestion.suggestedTarget)
        withTarget == IF i = 0
                      THEN Append(analysis,
                                  [target |-> suggestion.suggestedTarget, votes |-> 0,
                                   totalPriority |-> 0, reasons |-> <<>>, riskLevel |-> 0])
                      ELSE analysis
        k == IF i = 0 THEN Len(withTarget) ELSE i
    IN [withTarget EXCEPT ![k].votes = @ + 1,
                          ![k].totalPriority = @ + suggestion.priority,
                          ![k].reasons = Append(@, suggestion.reason)]

RECURSIVE TallyAll(_, _)
TallyAll(analysis, suggestions) ==
    IF Len(suggestions) = 0 THEN analysis
    ELSE TallyAll(Tally(analysis, Head(suggestions)), Tail(suggestions))

\* the second loop of analyzeTargetSuggestions: 0.3, 0.8 or 0.5
RiskLevel(reasons) ==
    IF \E i \in 1..Len(reasons) : \/ Includes(reasons[i], ShenZhi)
                                  \/ Includes(reasons[i], YuYanJia)
                                  \/ Includes(reasons[i], NvWu)
    THEN 30
    ELSE IF \E i \in 1..Len(reasons) : \/ Includes(reasons[i], HuaiYi)
                                       \/ Includes(reasons[i], WeiXie)
         THEN 80
         ELSE 50

\* analyzeTargetSuggestions: the Map, one entry per suggested target in order of first mention
AnalyzeTargetSuggestions(suggestions) ==
    LET tallied == TallyAll(<<>>, suggestions)
    IN [i \in 1..Len(tallied) |->
           [tallied[i] EXCEPT !.riskLevel = RiskLevel(tallied[i].reasons)]]

\* k * 0.4 in doubles, k an integer
TimesPointFour(k) == RoundToDouble([h |-> 40 * k, d |-> 80 * k])

\* (1 - data.riskLevel) * 0.2 in doubles, for the three risk levels the code assigns:
\* 0.13999999999999999, 0.03999999999999999 and 0.1
RiskTerm(riskLevel) ==
    CASE riskLevel = 30 -> [h |-> 14, d |-> -52]
      [] riskLevel = 80 -> [h |-> 4, d |-> -22]
      [] riskLevel = 50 -> [h |-> 10, d |-> 20]

\* (data.votes * 0.4) + (data.totalPriority * 0.4) + ((1 - data.riskLevel) * 0.2)
TeamScore(data) ==
    DblAdd(DblAdd(TimesPointFour(data.votes), TimesPointFour(data.totalPriority)),
           RiskTerm(data.riskLevel))

\* the loop of makeTeamDecision from entry k on; best is bestTarget (null is NoPlayer) and bestScore
RECURSIVE BestOver(_, _, _)
BestOver(analysis, k, best) ==
    IF k > Len(analysis) THEN best
    ELSE BestOver(analysis, k + 1,
                  IF DblLess(best.score, TeamScore(analysis[k]))
                  THEN [target |-> analysis[k].target, score |-> TeamScore(analysis[k])]
                  ELSE best)

\* bestTarget after the loop and after the fallback to the first candidate
BestTarget(analysis, context) ==
    LET scored == BestOver(analysis, 1, [target |-> NoPlayer,
                                         score |-> [h |-> InitialBestScore, d |-> 0]])
    IN IF scored.target = NoPlayer /\ Len(context.targetCandidates) > 0
       THEN context.targetCandidates[1]
       ELSE scored.target

\* a variant of the fallback that takes the last candidate and the last alive player
TargetOfLast(bestTarget, context) ==
    IF bestTarget # NoPlayer THEN bestTarget
    ELSE IF Len(context.targetCandidates) > 0
         THEN context.targetCandidates[Len(context.targetCandidates)]
         ELSE context.alivePlayers[Len(context.alivePlayers)].id

\* bestTarget || context.targetCandidates[0] || context.alivePlayers[0].id, where it is defined
TargetOf(bestTarget, context) ==
    IF bestTarget # NoPlayer THEN bestTarget
    ELSE IF Len(context.targetCandidates) > 0 THEN context.targetCandidates[1]
         ELSE context.alivePlayers[1].id

\* context.alivePlayers[0].id is read, and alivePlayers[0] is undefined: a TypeError
TargetThrows(bestTarget, context) ==
    bestTarget = NoPlayer /\ Len(context.targetCandidates) = 0 /\ Len(context.alivePlayers) = 0

NoDecision ==
    [targetPlayerId |-> NoPlayer, reason |-> <<>>, consensus |-> FALSE,
     participatingMembers |-> <<>>, finalDecisionMaker |-> NoPlayer]

\* makeTeamDecision; data is the position of targetData in the Map, 0 when it is null or undefined
MakeTeamDecision(analysis, context) ==
    LET bestTarget == BestTarget(analysis, context)
        data == IF bestTarget # NoPlayer THEN TargetIndex(analysis, bestTarget) ELSE 0
    IN IF TargetThrows(bestTarget, context)
       THEN [threw |-> TRUE, decision |-> NoDecision]
       ELSE [threw |-> FALSE,
             decision |->
                [targetPlayerId |-> TargetOf(bestTarget, context),
                 reason |-> IF data > 0 THEN Join(analysis[data].reasons, <<";", " ">>)
                            ELSE DefaultChoice,
                 consensus |-> IF data > 0
                               THEN 2 * analysis[data].votes > Len(context.aliveWerewolves)
                               ELSE FALSE,
                 participatingMembers |-> context.aliveWerewolves,
                 finalDecisionMaker |-> IF Len(context.aliveWerewolves) > 0
                                        THEN context.aliveWerewolves[1]
                                        ELSE NoPlayer]]

\* negotiateKillTarget: a decision is stored only when makeTeamDecision returns
NegotiateKillTarget(context, memberSuggestions) ==
    \E made \in {MakeTeamDecision(AnalyzeTargetSuggestions(memberSuggestions), context)} :
       /\ teamDecisions' = IF made.threw THEN teamDecisions
                           ELSE Append(teamDecisions, made.decision)
       /\ ret' = [op |-> "negotiateKillTarget",
                  args |-> [context |-> context, memberSuggestions |-> memberSuggestions],
                  result |-> made.decision, threw |-> made.threw]
       /\ trace' = NoTrace
       /\ nOps' = nOps + 1
       /\ UNCHANGED <<memVars, nextId, messages, communicationHistory>>

-----------------------------------------------------------------------------
(* WerewolfCommunicationSystem: generateWerewolfCommunication *)

\* context.werewolfTeam.includes(id)
InTeam(context, id) == InSeq(id, context.werewolfTeam)

\* content.includes('预言家') || content.includes('查验') || content.includes('昨晚我查了')
SeerSigns(content) ==
    Includes(content, YuYanJia) \/ Includes(content, ChaYan) \/ Includes(content, ZuoWanWoChaLe)

\* content.includes('女巫') || content.includes('药水') || content.includes('救人') ||
\* content.includes('毒死')
WitchSigns(content) ==
    \/ Includes(content, NvWu) \/ Includes(content, YaoShui)
    \/ Includes(content, JiuRen) \/ Includes(content, DuSi)

\* content.includes('狼人') && (content.includes('认为') || content.includes('怀疑'))
SuspicionSigns(content) ==
    Includes(content, LangRen) /\ (Includes(content, RenWei) \/ Includes(content, HuaiYi))

\* <speaker>号怀疑<werewolf>号是狼人
UrgentAction(playerId, werewolfId) ==
    NumStr(playerId) \o <<"haox", "huai", "yi">> \o NumStr(werewolfId)
        \o <<"haox", "shi", "lang", "ren">>

\* the inner loop over context.werewolfTeam for one speech: the members whose id, written
\* in decimal, occurs in the content
NamedWolves(context, content) ==
    SelectSeq(context.werewolfTeam, LAMBDA werewolfId : Includes(content, NumStr(werewolfId)))

\* the loop over the speeches from speech k on; analysis is the record built so far
RECURSIVE ScanSpeeches(_, _, _, _)
ScanSpeeches(context, speeches, k, analysis) ==
    IF k > Len(speeches) THEN analysis
    ELSE LET speech == speeches[k]
             content == ToLower(speech.content)
             gods == IF (SeerSigns(content) \/ WitchSigns(content))
                        /\ ~InSeq(speech.playerId, analysis.godRoleCandidates)
                     THEN Append(analysis.godRoleCandidates, speech.playerId)
                     ELSE analysis.godRoleCandidates
             named == IF SuspicionSigns(content) THEN NamedWolves(context, content) ELSE <<>>
         IN IF InTeam(context, speech.playerId)
            THEN ScanSpeeches(context, speeches, k + 1, analysis)
            ELSE ScanSpeeches(context, speeches, k + 1,
                    [analysis EXCEPT
                        !.godRoleCandidates = gods,
                        !.threatLevel = IF Len(named) > 0 THEN "high" ELSE @,
                        !.urgentActions =
                            @ \o [i \in 1..Len(named) |->
                                    UrgentAction(speech.playerId, named[i])]])

\* the loop over the votes: the voters who voted for a member of the team, once each
SuspiciousVoters(context, allVotes) ==
    LET hits == SelectSeq(Flatten(allVotes), LAMBDA vote : InTeam(context, vote.targetId))
    IN FirstOccurrences([i \in 1..Len(hits) |-> hits[i].voterId], <<>>)

\* a variant of the loop over context.alivePlayers that does not pass over the team
SafePlayersOfAnySide(context, analysis) ==
    LET safe == SelectSeq(context.alivePlayers,
                    LAMBDA player : /\ ~InSeq(player.id, analysis.godRoleCandidates)
                                    /\ ~InSeq(player.id, analysis.suspiciousPlayers))
    IN [i \in 1..Len(safe) |-> safe[i].id]

\* the loop over context.alivePlayers
SafePlayersOf(context, analysis) ==
    LET safe == SelectSeq(context.alivePlayers,
                    LAMBDA player : /\ ~InTeam(context, player.id)
                                    /\ ~InSeq(player.id, analysis.godRoleCandidates)
                                    /\ ~InSeq(player.id, analysis.suspiciousPlayers))
    IN [i \in 1..Len(safe) |-> safe[i].id]

\* analyzeGameSituation; Object.entries(allSpeeches) runs through the rounds in ascending
\* order
AnalyzeGameSituation(context, allSpeeches, allVotes) ==
    LET scanned == ScanSpeeches(context, Flatten(allSpeeches), 1,
                       [threatLevel |-> "medium", suspiciousPlayers |-> <<>>,
                        godRoleCandidates |-> <<>>, safePlayers |-> <<>>,
                        urgentActions |-> <<>>])
        voted == [scanned EXCEPT !.suspiciousPlayers = SuspiciousVoters(context, allVotes)]
    IN [voted EXCEPT !.safePlayers = SafePlayersOf(context, voted)]

\* 建议优先击杀<target>号，疑似神职角色
GodTargetText(target) ==
    <<"jian4", "yi4", "you1", "xian1", "ji1", "sha">> \o NumStr(target)
        \o <<"haox", ",", "yi", "si4", "shen", "zhi", "jue", "se">>

\* <target>号相对安全，建议作为击杀目标
SafeTargetText(target) ==
    NumStr(target) \o <<"haox", "xiang1", "dui4", "an1", "quan2", ",", "jian4", "yi4",
                        "zuo4", "wei", "ji1", "sha", "mu4", "biao1">>

\* 消除神职角色威胁
GodReasoning == <<"xiao1", "chu2", "shen", "zhi", "jue", "se", "weix", "xie">>
\* 我们被怀疑了，需要更好地伪装和配合
CoordinationText ==
    <<"wo", "men", "bei4", "huai", "yi", "le", ",", "xu1", "yao4", "geng4", "hao", "de5",
      "wei3", "zhuang1", "he2", "pei4", "he2x">>
\* 应对高威胁局势
CoordinationReasoning == <<"ying4", "dui4", "gao1", "weix", "xie", "ju", "shi4">>
\* 选择风险较低的目标
SafeReasoning == <<"xuan", "ze", "feng1", "xian3", "jiao4", "di1", "de", "mu4", "biao1">>
\* 需要仔细分析局势，寻找最佳击杀时机
StrategyText ==
    <<"xu1", "yao4", "zi3", "xi4", "fen1", "xi1", "ju", "shi4", ",", "xun2", "zhao3",
      "zui4", "jia1", "ji1", "sha", "shi2", "ji1x">>
\* 常规策略讨论
StrategyReasoning == <<"chang2", "gui1", "ce4", "lve4", "tao3", "lun4">>

\* a variant that answers a high threat level before it looks at the god-role candidates
GenerateCommunicationContentThreatFirst(gameAnalysis) ==
    IF gameAnalysis.threatLevel = "high"
    THEN [messageType |-> "coordination", content |-> CoordinationText,
          priority |-> "high", reasoning |-> CoordinationReasoning]
    ELSE IF Len(gameAnalysis.godRoleCandidates) > 0
    THEN [messageType |-> "target_suggestion",
          content |-> GodTargetText(gameAnalysis.godRoleCandidates[1]),
          priority |-> "high",
          suggestedTarget |-> gameAnalysis.godRoleCandidates[1],
          reasoning |-> GodReasoning]
    ELSE IF Len(gameAnalysis.safePlayers) > 0
    THEN [messageType |-> "target_suggestion",
          content |-> SafeTargetText(gameAnalysis.safePlayers[1]),
          priority |-> "medium",
          suggestedTarget |-> gameAnalysis.safePlayers[1],
          reasoning |-> SafeReasoning]
    ELSE [messageType |-> "strategy", content |-> StrategyText,
          priority |-> "low", reasoning |-> StrategyReasoning]

\* generateCommunicationContent; the second and the fourth record have no suggestedTarget
GenerateCommunicationContent(gameAnalysis) ==
    IF Len(gameAnalysis.godRoleCandidates) > 0
    THEN [messageType |-> "target_suggestion",
          content |-> GodTargetText(gameAnalysis.godRoleCandidates[1]),
          priority |-> "high",
          suggestedTarget |-> gameAnalysis.godRoleCandidates[1],
          reasoning |-> GodReasoning]
    ELSE IF gameAnalysis.threatLevel = "high"
    THEN [messageType |-> "coordination", content |-> CoordinationText,
          priority |-> "high", reasoning |-> CoordinationReasoning]
    ELSE IF Len(gameAnalysis.safePlayers) > 0
    THEN [messageType |-> "target_suggestion",
          content |-> SafeTargetText(gameAnalysis.safePlayers[1]),
          priority |-> "medium",
          suggestedTarget |-> gameAnalysis.safePlayers[1],
          reasoning |-> SafeReasoning]
    ELSE [messageType |-> "strategy", content |-> StrategyText,
          priority |-> "low", reasoning |-> StrategyReasoning]

\* the position of a round among the keys of communicationHistory, 0 when it is not a key
HistoryIndex(history, round) ==
    IF \E i \in 1..Len(history) : history[i].round = round
    THEN CHOOSE i \in 1..Len(history) : history[i].round = round
    ELSE 0

\* communicationHistory after addMessage: the Map keeps its keys in insertion order
HistoryWith(history, message) ==
    LET at == HistoryIndex(history, message.round)
    IN IF at = 0
       THEN Append(history, [round |-> message.round, messages |-> <<message>>])
       ELSE [history EXCEPT ![at].messages = Append(@, message)]

\* a variant that puts the new message in front of the log
AddMessageInFront(params) ==
    /\ messages' = <<params>> \o messages
    /\ communicationHistory' = HistoryWith(communicationHistory, params)

\* addMessage.  The id and the timestamp of a message come from the clock and the random
\* generator and are read by no operation; a message is modelled by its other fields.
AddMessage(params) ==
    /\ messages' = Append(messages, params)
    /\ communicationHistory' = HistoryWith(communicationHistory, params)

\* generateWerewolfCommunication
GenerateWerewolfCommunication(senderId, context, allSpeeches, allVotes) ==
    \E communication \in
          {GenerateCommunicationContent(AnalyzeGameSituation(context, allSpeeches, allVotes))} :
       /\ AddMessage([senderId |-> senderId, content |-> communication.content,
                      round |-> context.round, type |-> communication.messageType])
       /\ ret' = [op |-> "generateWerewolfCommunication",
                  args |-> [senderId |-> senderId, context |-> context,
                            allSpeeches |-> allSpeeches, allVotes |-> allVotes],
                  result |-> communication, threw |-> FALSE]
       /\ trace' = NoTrace
       /\ nOps' = nOps + 1
       /\ UNCHANGED <<memVars, nextId, teamDecisions>>

-----------------------------------------------------------------------------
(* WerewolfCommunicationSystem: generateDayStrategy, the two getters, cleanup *)

\* 适度引导讨论方向，不要过于主动 / 在投票中期参与，避免第一个投票
LeaderSpeech ==
    <<"shi4x", "dux", "yin3", "dao3", "tao3", "lun4", "fang1", "xiang4", ",", "bu", "yao4",
      "guo4", "yu2", "zhu3", "dong4">>
LeaderVoting ==
    <<"zai", "tou", "piao", "zhong1", "qi1", "can1", "yu3", ",", "bi4", "mian3", "di4",
      "yix", "ge4", "tou", "piao">>
\* 支持队友观点但不要过于明显 / 跟随大多数意见，偶尔表达不同看法
MemberSpeech ==
    <<"zhi1", "chi2", "dui4x", "you3", "guan1", "dian3", "dan4", "bu", "yao4", "guo4",
      "yu2", "ming2", "xian3x">>
MemberVoting ==
    <<"gen1", "sui2", "da4", "duo1", "shu4", "yi4x", "jian4x", ",", "ou3", "er3", "biao3",
      "da2", "bu", "tong2", "kan4", "fa3">>
\* ，需要更加谨慎 / ，避免暴露关联
CarefulSpeech == <<",", "xu1", "yao4", "geng4", "jia1x", "jin3", "shen4">>
CarefulVoting == <<",", "bi4", "mian3", "bao4", "lu4", "guan1x", "lian2">>

\* a variant that adds the caution clauses whenever the urgency is not low
GenerateIndividualStrategyCautiousEarly(werewolfId, context) ==
    LET isLeader == werewolfId = context.aliveWerewolves[1]
        careful == context.urgencyLevel # "low"
    IN [speechStrategy |-> (IF isLeader THEN LeaderSpeech ELSE MemberSpeech)
                              \o (IF careful THEN CarefulSpeech ELSE <<>>),
        votingStrategy |-> (IF isLeader THEN LeaderVoting ELSE MemberVoting)
                              \o (IF careful THEN CarefulVoting ELSE <<>>),
        riskLevel |-> context.urgencyLevel]

\* generateIndividualStrategy
GenerateIndividualStrategy(werewolfId, context) ==
    LET isLeader == werewolfId = context.aliveWerewolves[1]
        careful == context.urgencyLevel = "high"
    IN [speechStrategy |-> (IF isLeader THEN LeaderSpeech ELSE MemberSpeech)
                              \o (IF careful THEN CarefulSpeech ELSE <<>>),
        votingStrategy |-> (IF isLeader THEN LeaderVoting ELSE MemberVoting)
                              \o (IF careful THEN CarefulVoting ELSE <<>>),
        riskLevel |-> context.urgencyLevel]

\* 避免同时投票给同一目标 / 分散发言时间避免过于一致 / 适当质疑队友制造假象
CoordinationPoints ==
    << <<"bi4", "mian3", "tong2", "shi2", "tou", "piao", "gei3", "tong2", "yix", "mu4",
         "biao1">>,
       <<"fen1", "san4", "fa1", "yan", "shi2", "jian1", "bi4", "mian3", "guo4", "yu2",
         "yix", "zhi4">>,
       <<"shi4x", "dang4", "zhi4x", "yi", "dui4x", "you3", "zhi4y", "zao4", "jia3",
         "xiang4x">> >>
\* 优先保护核心成员
ProtectCore == <<"you1", "xian1", "bao3", "hu4", "he2y", "xin1", "cheng2", "yuan2">>

\* 团队目标: 消除<target>号玩家，白天需要伪装成村民
OverallStrategy(target) ==
    <<"tuan2", "dui4x", "mu4", "biao1", ":", " ", "xiao1", "chu2">> \o NumStr(target)
        \o <<"haox", "wan2", "jia", ",", "bai2", "tian1", "xu1", "yao4", "wei3", "zhuang1",
             "cheng2x", "cun", "min">>

\* the record generateDayStrategy returns; the Map of individual strategies is a sequence
\* of entries in the order of context.aliveWerewolves, a later entry for the same id
\* replacing the earlier one
DayStrategy(context, teamDecision) ==
    LET ids == FirstOccurrences(context.aliveWerewolves, <<>>)
    IN [overallStrategy |-> OverallStrategy(teamDecision.targetPlayerId),
        individualStrategies |->
            [i \in 1..Len(ids) |->
                [werewolfId |-> ids[i],
                 strategy |-> GenerateIndividualStrategy(ids[i], context)]],
        coordinationPoints |->
            IF context.urgencyLevel = "high" THEN Append(CoordinationPoints, ProtectCore)
            ELSE CoordinationPoints]

\* a variant that tidies the log up for the round of the context before it answers
GenerateDayStrategyTidying(context, teamDecision) ==
    /\ messages' = SelectSeq(messages, LAMBDA msg : context.round - msg.round <= 3)
    /\ ret' = [op |-> "generateDayStrategy",
               args |-> [context |-> context, teamDecision |-> teamDecision],
               result |-> DayStrategy(context, teamDecision), threw |-> FALSE]
    /\ trace' = NoTrace
    /\ nOps' = nOps + 1
    /\ UNCHANGED <<memVars, nextId, teamDecisions, communicationHistory>>

\* generateDayStrategy
GenerateDayStrategy(context, teamDecision) ==
    /\ ret' = [op |-> "generateDayStrategy",
               args |-> [context |-> context, teamDecision |-> teamDecision],
               result |-> DayStrategy(context, teamDecision), threw |-> FALSE]
    /\ trace' = NoTrace
    /\ nOps' = nOps + 1
    /\ UNCHANGED <<memVars, nextId, commVars>>

\* getCommunicationHistory(round): round is NoRound when the argument is left out, and
\* if (round) is false for it as it is for round 0
NoRound == 0

HistoryOf(round) ==
    IF round # NoRound
    THEN IF HistoryIndex(communicationHistory, round) # 0
         THEN communicationHistory[HistoryIndex(communicationHistory, round)].messages
         ELSE <<>>
    ELSE messages

GetCommunicationHistory(round) ==
    /\ ret' = [op |-> "getCommunicationHistory", args |-> [round |-> round],
               result |-> HistoryOf(round), threw |-> FALSE]
    /\ trace' = NoTrace
    /\ nOps' = nOps + 1
    /\ UNCHANGED <<memVars, nextId, commVars>>

\* getTeamDecisions
GetTeamDecisions ==
    /\ ret' = [op |-> "getTeamDecisions", args |-> <<>>, result |-> teamDecisions,
               threw |-> FALSE]
    /\ trace' = NoTrace
    /\ nOps' = nOps + 1
    /\ UNCHANGED <<memVars, nextId, commVars>>

\* only the last three rounds are kept
KeptRounds == 3

\* a variant that keeps the last two rounds only
RecentStrictly(currentRound, round) == currentRound - round < KeptRounds

\* currentRound - round <= 3
Recent(currentRound, round) == currentRound - round <= KeptRounds

\* a variant of cleanup that filters the log and leaves the per-round history alone
CleanupOfTheLogOnly(currentRound) ==
    /\ messages' = SelectSeq(messages, LAMBDA msg : Recent(currentRound, msg.round))
    /\ communicationHistory' = communicationHistory
    /\ ret' = [op |-> "cleanup", args |-> [currentRound |-> currentRound],
               result |-> "void", threw |-> FALSE]
    /\ trace' = [NoTrace EXCEPT !.evictPushed = messages]
    /\ nOps' = nOps + 1
    /\ UNCHANGED <<memVars, nextId, teamDecisions>>

\* cleanup; the trace keeps the log as it was before the filter
Cleanup(currentRound) ==
    /\ messages' = SelectSeq(messages, LAMBDA msg : Recent(currentRound, msg.round))
    /\ communicationHistory' =
          SelectSeq(communicationHistory, LAMBDA entry : Recent(currentRound, entry.round))
    /\ ret' = [op |-> "cleanup", args |-> [currentRound |-> currentRound],
               result |-> "void", threw |-> FALSE]
    /\ trace' = [NoTrace EXCEPT !.evictPushed = messages]
    /\ nOps' = nOps + 1
    /\ UNCHANGED <<memVars, nextId, teamDecisions>>

-----------------------------------------------------------------------------
(* PlayerServer: startGame, vote, werewolfCommunicate *)

\* Role of a server whose startGame was never called (this.role is undefined)
NoRole == "none"

\* a PlayerServer right after its construction
NewServer ==
    [role |-> NoRole, playerId |-> NoPlayer, teammates |-> <<>>,
     aiMemory |-> FALSE, werewolfComm |-> FALSE]

\* the fields of a PlayerServer whose startGame has built the memory system ctx belongs to
ServerOf(ctx) ==
    [role |-> ctx.myRole, playerId |-> ctx.myPlayerId, teammates |-> ctx.teammates,
     aiMemory |-> TRUE, werewolfComm |-> ctx.myRole = "werewolf"]

\* startGame: a new memory system always, a new communication system for a wolf; the
\* communication system of an earlier game is left in place otherwise
StartGame(params) ==
    /\ server' = [role |-> params.role, playerId |-> params.playerId,
                  teammates |-> params.teammates, aiMemory |-> TRUE,
                  werewolfComm |-> server.werewolfComm \/ params.role = "werewolf"]
    /\ memories' = <<>>
    /\ playerProfiles' = <<>>
    /\ gameContext' = [myRole |-> params.role, myPlayerId |-> params.playerId,
                       teammates |-> params.teammates,
                       currentRound |-> 1, currentPhase |-> "day"]
    /\ nextId' = 1
    /\ IF params.role = "werewolf"
       THEN messages' = <<>> /\ teamDecisions' = <<>> /\ communicationHistory' = <<>>
       ELSE UNCHANGED commVars
    /\ ret' = [op |-> "startGame", args |-> params, result |-> "void", threw |-> FALSE]
    /\ trace' = NoTrace
    /\ nOps' = nOps + 1

\* 默认投票给玩家1
DefaultVote == [target |-> 1, reason |-> <<"mo", "renx", "tou", "piao", "gei3", "wan2", "jia", "1">>]

\* vote of a server with an API key: the default vote while no role is set, otherwise
\* deduceRoles on the memory system and the vote the completion call produces, which is
\* one of the alive players
PlayerVote(context) ==
    IF server.role = NoRole
    THEN /\ ret' = [op |-> "vote", args |-> context, result |-> DefaultVote, threw |-> FALSE]
         /\ trace' = NoTrace
         /\ nOps' = nOps + 1
         /\ UNCHANGED <<memVars, nextId, commVars, server>>
    ELSE \E deductions \in {Deductions(playerProfiles, gameContext, context.alivePlayers,
                                        context.allSpeeches)} :
         \E st \in {AddDeductions(StartCall, gameContext.currentRound, deductions)} :
         \E k \in 1..Len(context.alivePlayers) :
            /\ memories' = st.mem
            /\ nextId' = st.id
            /\ trace' = TraceOf(st)
            /\ ret' = [op |-> "vote", args |-> context,
                       result |-> [target |-> context.alivePlayers[k].id,
                                   reason |-> <<"generated">>],
                       threw |-> FALSE]
            /\ nOps' = nOps + 1
            /\ UNCHANGED <<playerProfiles, gameContext, commVars, server>>

\* context.allSpeeches[context.round] || [], and the same for allVotes
RoundEntries(record, round) == IF round \in 1..Len(record) THEN record[round] ELSE <<>>

\* 我需要仔细思考一下当前的情况。
FallbackSpeech == <<"wo", "xu1", "yao4", "zi3", "xi4", "si1", "kao3", "yi1", "xia4", "dang1",
                    "qian", "de", "qing2", "kuang4", "ju4hao4">>

\* the loop of speak over the speeches of the current round: analyzeSpeech for every
\* speech that is not the player's own; call is the running store and the profiles
RECURSIVE AnalyzeOthers(_, _, _, _, _)
AnalyzeOthers(call, ctx, playerId, speeches, allSpeeches) ==
    IF Len(speeches) = 0 THEN call
    ELSE AnalyzeOthers(IF speeches[1].playerId # playerId
                       THEN AnalyzeSpeechCall(call.st, call.profiles, ctx, speeches[1],
                                              allSpeeches)
                       ELSE call,
                       ctx, playerId, Tail(speeches), allSpeeches)

\* if (currentRoundVotes.length > 0) analyzeVotingPattern(...)
AnalyzeRoundVotes(st, ctx, context) ==
    IF Len(RoundEntries(context.allVotes, context.round)) > 0
    THEN AddPatterns(st, ctx.currentRound, ExtractVotingPatterns(context.allVotes))
    ELSE st

\* speak of a server with an API key: the fallback text while no role is set; otherwise
\* updateGameContext, the analysis of the current round's speeches and votes, the
\* generateStrategy of buildSpeechPrompt, and the speech of the completion call or, when
\* that call fails, the fallback text
PlayerSpeak(context) ==
    IF server.role = NoRole
    THEN /\ ret' = [op |-> "speak", args |-> context, result |-> FallbackSpeech,
                    threw |-> FALSE]
         /\ trace' = NoTrace
         /\ nOps' = nOps + 1
         /\ UNCHANGED <<memVars, nextId, commVars, server>>
    ELSE \E ctx \in {[gameContext EXCEPT !.currentRound = context.round,
                                         !.currentPhase = context.currentPhase]} :
         \E call \in {AnalyzeOthers([st |-> StartCall, profiles |-> playerProfiles], ctx,
                                    server.playerId,
                                    RoundEntries(context.allSpeeches, context.round),
                                    context.allSpeeches)} :
         \E st \in {AddMemory(AnalyzeRoundVotes(call.st, ctx, context), ctx.currentRound,
                              StrategyParams(StrategyFor(ctx, call.profiles)))} :
         \E speech \in {<<"generated">>, FallbackSpeech} :
            /\ gameContext' = ctx
            /\ memories' = st.mem
            /\ nextId' = st.id
            /\ playerProfiles' = call.profiles
            /\ trace' = TraceOf(st)
            /\ ret' = [op |-> "speak", args |-> context, result |-> speech, threw |-> FALSE]
            /\ nOps' = nOps + 1
            /\ UNCHANGED <<commVars, server>>

\* a variant of the test that looks at the communication system only
MayCommunicateWithSystem(srv) == srv.werewolfComm /\ srv.aiMemory

\* !(this.role !== Role.WEREWOLF || !this.werewolfComm || !this.aiMemory)
MayCommunicate(srv) == srv.role = "werewolf" /\ srv.werewolfComm /\ srv.aiMemory

\* the werewolfContext werewolfCommunicate builds from the PlayerContext
WerewolfContext(srv, mem, context) ==
    [round |-> context.round,
     alivePlayers |-> context.alivePlayers,
     werewolfTeam |-> srv.teammates,
     aliveWerewolves |->
        SelectSeq(srv.teammates,
                  LAMBDA id : \E i \in 1..Len(context.alivePlayers) :
                                 /\ context.alivePlayers[i].id = id
                                 /\ context.alivePlayers[i].isAlive),
     targetCandidates |->
        LET free == SelectSeq(context.alivePlayers,
                              LAMBDA p : /\ p.isAlive
                                         /\ ~InSeq(p.id, srv.teammates)
                                         /\ p.id # srv.playerId)
        IN [i \in 1..Len(free) |-> free[i].id],
     gameAnalysis |-> GetMemorySummaryText(mem, 10),
     urgencyLevel |-> "medium"]

\* 只有狼人才能使用对话功能
OnlyWolvesError == <<"zhi3", "you3x", "lang", "ren", "cai2", "neng", "shi3", "yong", "dui4",
                     "hua4", "gong1", "neng">>

\* werewolfCommunicate: the error, or the message of generateWerewolfCommunication; the
\* object returned always has the property suggestedTarget, undefined (NoPlayer) when
\* the message has none
WerewolfCommunicate(context) ==
    IF ~MayCommunicate(server)
    THEN /\ ret' = [op |-> "werewolfCommunicate", args |-> context,
                    result |-> OnlyWolvesError, threw |-> TRUE]
         /\ trace' = NoTrace
         /\ nOps' = nOps + 1
         /\ UNCHANGED <<memVars, nextId, commVars, server>>
    ELSE \E communication \in
               {GenerateCommunicationContent(
                   AnalyzeGameSituation(WerewolfContext(server, memories, context),
                                        context.allSpeeches, context.allVotes))} :
            /\ AddMessage([senderId |-> server.playerId, content |-> communication.content,
                           round |-> context.round, type |-> communication.messageType])
            /\ ret' = [op |-> "werewolfCommunicate", args |-> context,
                       result |-> [messageType |-> communication.messageType,
                                   content |-> communication.content,
                                   suggestedTarget |->
                                      IF "suggestedTarget" \in DOMAIN communication
                                      THEN communication.suggestedTarget ELSE NoPlayer],
                       threw |-> FALSE]
            /\ trace' = NoTrace
            /\ nOps' = nOps + 1
            /\ UNCHANGED <<memVars, nextId, teamDecisions, server>>

-----------------------------------------------------------------------------
(* The inputs of the memory system *)

Roles == {"werewolf", "seer", "witch", "villager"}

Speech(p, text) == [playerId |-> p, content |-> text]
Vote(v, t) == [voterId |-> v, targetId |-> t]
Alive(ids) == [i \in 1..Len(ids) |-> [id |-> ids[i], isAlive |-> TRUE]]

TxSeer == WoShiYuYanJia
TxNotSeer == WoBuShiYuYanJia
\* 我查验了2号
TxCheck == <<"wo", "cha", "yanx", "le", "2", "haox">>
\* 昨晚查验3号是好人
TxNightCheck == <<"zuo", "wan", "cha", "yanx", "3", "haox", "shi", "hao", "ren">>
\* 我查验了4号
TxCheckFour == <<"wo", "cha", "yanx", "le", "4", "haox">>
\* 昨晚投票
TxVoteNight == ZuoWan \o TouPiao
\* 过
TxPass == <<"guo">>
\* 昨晚狼人杀人，女巫用药，预言家投票
TxAll == <<"zuo", "wan", "lang", "ren", "sha", "ren", ",", "nv", "wu", "yong", "yao", ",",
           "yu", "yan", "jia", "tou", "piao">>
\* 可能是好人
TxMaybe == <<"ke", "neng", "shi", "hao", "ren">>

\* allSpeeches as the caller holds it when player p's speech is analysed: the speech itself
\* in the current round, after the round before it (in which player q spoke)
SpeechCase(p, text, q, before) ==
    [speech |-> Speech(p, text),
     allSpeeches |-> << [i \in 1..Len(before) |-> Speech(q, before[i])], <<Speech(p, text)>> >>]

\* no history and no marker (the teammate of a wolf); every bucket; a claim after its
\* denial; a denial after its claim; a third check result; a claim after another
\* player's denial; the vote of last night, which is in the voting and the night bucket only
SpeechCases ==
    { SpeechCase(2, TxPass, 2, <<>>),
      SpeechCase(3, TxAll, 3, <<>>),
      SpeechCase(2, TxSeer, 2, <<TxNotSeer>>),
      SpeechCase(3, TxNotSeer, 3, <<TxSeer>>),
      SpeechCase(3, TxCheck, 3, <<TxNightCheck, TxCheckFour>>),
      SpeechCase(2, TxSeer, 3, <<TxNotSeer>>),
      SpeechCase(3, TxVoteNight, 3, <<>>) }

\* speech histories for deduceRoles
HistoryMixed ==
    << <<Speech(1, TxSeer), Speech(2, TxAll), Speech(3, TxSeer)>>,
       <<Speech(1, TxCheck), Speech(2, TxAll), Speech(3, TxNightCheck)>>,
       <<Speech(2, TxCheck), Speech(3, TxMaybe)>> >>

\* 我不确定, said by player 3 in four rounds
TxUnsure == <<"wo", "bu", "que", "ding">>
HistoryUnsure ==
    << <<Speech(3, TxUnsure)>>, <<Speech(3, TxUnsure)>>, <<Speech(3, TxUnsure)>>,
       <<Speech(2, TxSeer), Speech(3, TxUnsure)>> >>

\* 我不确定他是好人: a hedge and a good-person marker in one speech
TxUnsureGood == TxUnsure \o <<"ta", "shi">> \o HaoRen
\* three rounds: player 2 says it in each, which scores wolf and villager alike, and
\* player 3 (dead by the time of the call) claims the seer in each
HistoryHedged ==
    << <<Speech(2, TxUnsureGood), Speech(3, TxSeer)>>,
       <<Speech(2, TxUnsureGood), Speech(3, TxSeer)>>,
       <<Speech(2, TxUnsureGood), Speech(3, TxSeer)>> >>

DeduceCases ==
    { [alivePlayers |-> Alive(<<1, 2, 3>>), allSpeeches |-> HistoryMixed],
      [alivePlayers |-> Alive(<<1, 2, 3>>), allSpeeches |-> HistoryUnsure],
      [alivePlayers |-> Alive(<<1, 2>>), allSpeeches |-> HistoryHedged] }

\* a vote table, one sequence of votes per round: five voters, of whom 1 changes target,
\* 4 votes once, 5 repeats its target, 3 votes last for 2 and then first for 2 again, and
\* 2 votes late twice for different targets
VoteTables ==
    { << <<Vote(1, 2), Vote(4, 1), Vote(5, 1), Vote(2, 3), Vote(3, 2)>>,
         <<Vote(3, 2), Vote(1, 3), Vote(5, 1), Vote(2, 1)>> >> }

LastRound(table) == IF Len(table) > 0 THEN table[Len(table)] ELSE <<>>

ContextUpdates == {<<1, "day">>, <<2, "night">>}

SummarySizes == {0, 1, 10}

-----------------------------------------------------------------------------
(* Spec: one agent's memory system, driven call by call *)

\* no call waiting
NoRequest == [context |-> <<>>, memberSuggestions |-> <<>>, waiting |-> FALSE]

NoCall == [op |-> "new", args |-> <<>>, result |-> "void", threw |-> FALSE]

\* the agent as PlayerServer.startGame builds it: teammates only for a wolf
Init ==
    /\ \E role \in Roles :
          NewMemorySystem(role, 1, IF role = "werewolf" THEN <<2>> ELSE <<>>)
    /\ NewCommunicationSystem
    /\ ret = NoCall
    /\ trace = NoTrace
    /\ nOps = 0
    /\ pending = NoRequest
    /\ server = ServerOf(gameContext)

DoUpdateGameContext ==
    /\ nOps < MaxOps
    /\ \E u \in ContextUpdates : UpdateGameContext(u[1], u[2])
    /\ UNCHANGED <<pending, server>>

DoAnalyzeSpeech ==
    /\ nOps < MaxOps
    /\ \E c \in SpeechCases : AnalyzeSpeech(c.speech, c.allSpeeches, Alive(<<1, 2, 3>>))
    /\ UNCHANGED <<pending, server>>

DoAnalyzeVotingPattern ==
    /\ nOps < MaxOps
    /\ \E allVotes \in VoteTables :
          AnalyzeVotingPattern(LastRound(allVotes), allVotes, Alive(<<1, 2, 3>>))
    /\ UNCHANGED <<pending, server>>

DoDeduceRoles ==
    /\ nOps < MaxOps
    /\ \E c \in DeduceCases : DeduceRoles(c.alivePlayers, c.allSpeeches)
    /\ UNCHANGED <<pending, server>>

DoGenerateStrategy == nOps < MaxOps /\ GenerateStrategy /\ UNCHANGED <<pending, server>>

DoGetMemorySummary ==
    /\ nOps < MaxOps
    /\ \E n \in SummarySizes : GetMemorySummary(n)
    /\ UNCHANGED <<pending, server>>

DoGetThreatAssessment == nOps < MaxOps /\ GetThreatAssessment /\ UNCHANGED <<pending, server>>

Next ==
    \/ DoUpdateGameContext
    \/ DoAnalyzeSpeech
    \/ DoAnalyzeVotingPattern
    \/ DoDeduceRoles
    \/ DoGenerateStrategy
    \/ DoGetMemorySummary
    \/ DoGetThreatAssessment

Spec == Init /\ [][Next]_vars

-----------------------------------------------------------------------------
(* SpecEvict: the memory system of a wolf fed whole vote tables, up to the cap *)

\* voters of the large table
TableVoters == 33

\* two rounds in which every voter votes, in the order of the ids, for the next and then
\* for the second next player: every voter scatters, the back half follows
RoundOfVotes(shift) ==
    [v \in 1..TableVoters |-> Vote(v, ((v + shift - 1) % TableVoters) + 1)]

LargeVoteTable == <<RoundOfVotes(1), RoundOfVotes(2)>>

EvictSpeechCases ==
    { SpeechCase(2, TxPass, 2, <<>>), SpeechCase(3, TxSeer, 3, <<TxNotSeer>>) }

InitEvict ==
    /\ NewMemorySystem("werewolf", 1, <<2>>)
    /\ NewCommunicationSystem
    /\ ret = NoCall
    /\ trace = NoTrace
    /\ nOps = 0
    /\ pending = NoRequest
    /\ server = ServerOf(gameContext)

EvictAnalyzeVotingPattern ==
    /\ nOps < MaxEvictOps
    /\ AnalyzeVotingPattern(LastRound(LargeVoteTable), LargeVoteTable, Alive(<<1, 2, 3>>))
    /\ UNCHANGED <<pending, server>>

EvictAnalyzeSpeech ==
    /\ nOps < MaxEvictOps
    /\ \E c \in EvictSpeechCases : AnalyzeSpeech(c.speech, c.allSpeeches, Alive(<<1, 2, 3>>))
    /\ UNCHANGED <<pending, server>>

EvictDeduceRoles ==
    /\ nOps < MaxEvictOps
    /\ DeduceRoles(Alive(<<1, 2, 3>>), HistoryMixed)
    /\ UNCHANGED <<pending, server>>

EvictGenerateStrategy == nOps < MaxEvictOps /\ GenerateStrategy /\ UNCHANGED <<pending, server>>

NextEvict ==
    \/ EvictAnalyzeVotingPattern
    \/ EvictAnalyzeSpeech
    \/ EvictDeduceRoles
    \/ EvictGenerateStrategy

SpecEvict == InitEvict /\ [][NextEvict]_vars

-----------------------------------------------------------------------------
(* SpecNegotiate: the coordination system of a wolf serving one negotiateKillTarget, on
   every context and every suggestion list of the pools below *)

\* 随便 / 他是预言家 / 他怀疑我们
RsPlain == <<"sui", "bian">>
RsGod == <<"ta", "shi", "yu", "yan", "jia">>
RsSuspect == <<"ta", "huai", "yi", "wo", "men">>

Suggestion(member, target, reason, priority) ==
    [memberId |-> member, suggestedTarget |-> target, reason |-> reason, priority |-> priority]

\* The suggestions lists are made of.  Members 1, 4, 6 and 8 are the wolves, 9 is not one;
\* member 4 has a suggestion for either target.  One priority-5 suggestion for target 2 and
\* three priority-1 suggestions for target 3, all without a marker, have the same score as
\* real numbers (0.4 + 2.0 + 0.1 and 1.2 + 1.2 + 0.1) and different scores as doubles.
SuggestionPool ==
    { Suggestion(1, 2, RsPlain, 5),
      Suggestion(4, 2, RsPlain, 5),
      Suggestion(6, 2, RsGod, 5),
      Suggestion(8, 3, RsPlain, 1),
      Suggestion(4, 3, RsPlain, 5),
      Suggestion(9, 3, RsSuspect, -4) }

SuggestionLists ==
    UNION { [1..n -> SuggestionPool] : n \in 0..MaxSuggestions }

Context(round, alive, wolves, candidates) ==
    [round |-> round, alivePlayers |-> Alive(alive), werewolfTeam |-> <<1, 4, 6, 8>>,
     aliveWerewolves |-> wolves, targetCandidates |-> candidates,
     gameAnalysis |-> <<>>, urgencyLevel |-> "medium"]

\* four wolves alive; two wolves alive; one wolf and candidates 5 and 7; no candidate left;
\* nobody left
Contexts ==
    { Context(1, <<1, 2, 3, 4, 5, 6, 7, 8>>, <<1, 4, 6, 8>>, <<2, 3, 5, 7>>),
      Context(2, <<1, 2, 3, 4>>, <<1, 4>>, <<2, 3>>),
      Context(3, <<1, 5, 7>>, <<1>>, <<5, 7>>),
      Context(3, <<3, 1>>, <<1>>, <<>>),
      Context(4, <<>>, <<>>, <<>>) }

InitNegotiate ==
    /\ NewMemorySystem("werewolf", 1, <<4, 6, 8>>)
    /\ NewCommunicationSystem
    /\ ret = NoCall
    /\ trace = NoTrace
    /\ nOps = 0
    /\ \E context \in Contexts : \E memberSuggestions \in SuggestionLists :
          pending = [context |-> context, memberSuggestions |-> memberSuggestions,
                     waiting |-> TRUE]
    /\ server = ServerOf(gameContext)

ServeNegotiate ==
    /\ pending.waiting
    /\ NegotiateKillTarget(pending.context, pending.memberSuggestions)
    /\ pending' = NoRequest
    /\ UNCHANGED server

NextNegotiate == ServeNegotiate

SpecNegotiate == InitNegotiate /\ [][NextNegotiate]_vars

-----------------------------------------------------------------------------
(* SpecComm: the coordination system of a wolf over several nights, every operation of
   WerewolfCommunicationSystem called in any order *)

MaxCommOps == 3

\* 我怀疑4号是狼人 / 我怀疑5号是狼人 / 我是预言家，我认为1号是狼人
TxSuspectFour == <<"wo", "huai", "yi", "4", "haox", "shi", "lang", "ren">>
TxSuspectFive == <<"wo", "huai", "yi", "5", "haox", "shi", "lang", "ren">>
TxSeerSuspectOne == WoShiYuYanJia \o <<",", "wo", "renx", "wei", "1", "haox", "shi", "lang", "ren">>

CommCase(context, allSpeeches, allVotes) ==
    [context |-> context, allSpeeches |-> allSpeeches, allVotes |-> allVotes]

\* Players 1, 4, 6 and 8 are the wolves.
\* night 1: player 7 claims the seer and suspects wolf 1, then player 3 claims the witch;
\* night 6: player 2 suspects wolf 4;
\* night 7: wolf 4 claims the seer, player 3 suspects player 5, player 2 has voted for wolf 1;
\* night 10: player 2, the last villager, has voted for wolf 4;
\* night 10: player 2 suspects wolf 4, and a round later player 5 claims the seer;
\* night 7: player 3 claimed the witch in an earlier round and has died since
CommCases ==
    { CommCase(Context(1, <<1, 2, 3, 4, 5, 6, 7, 8>>, <<1, 4, 6, 8>>, <<2, 3, 5, 7>>),
               << <<Speech(2, WoShiCunMin), Speech(7, TxSeerSuspectOne)>>,
                  <<Speech(3, WoShiNvWu)>> >>,
               <<>>),
      CommCase(Context(6, <<1, 2, 3, 4>>, <<1, 4>>, <<2, 3>>),
               << <<Speech(2, TxSuspectFour)>> >>,
               <<>>),
      CommCase(Context(7, <<1, 2, 3, 4, 5>>, <<1, 4>>, <<2, 3, 5>>),
               << <<Speech(4, WoShiYuYanJia), Speech(2, WoShiCunMin),
                    Speech(3, TxSuspectFive)>> >>,
               << <<Vote(2, 1), Vote(3, 5)>> >>),
      CommCase(Context(10, <<1, 2, 4>>, <<1, 4>>, <<2>>),
               <<>>,
               << <<Vote(1, 2), Vote(2, 4)>> >>),
      CommCase(Context(10, <<1, 2, 4, 5>>, <<1, 4>>, <<2, 5>>),
               << <<Speech(2, TxSuspectFour)>>, <<Speech(5, WoShiYuYanJia)>> >>,
               <<>>),
      CommCase(Context(7, <<1, 2, 4>>, <<1, 4>>, <<2>>),
               << <<Speech(3, WoShiNvWu)>>, <<Speech(2, WoShiCunMin)>> >>,
               <<>>) }

CommSenders == {1, 4}

\* the contexts of the other operations: one of night 1, one of night 7 in a hurry, one
\* of night 3 at ease with a single wolf left, and one of night 4 with nobody left
DayContexts ==
    { Context(1, <<1, 2, 3, 4, 5, 6, 7, 8>>, <<1, 4, 6, 8>>, <<2, 3, 5, 7>>),
      [Context(7, <<1, 2, 3, 4, 5>>, <<1, 4>>, <<2, 3, 5>>) EXCEPT !.urgencyLevel = "high"],
      [Context(3, <<2, 3, 4>>, <<4>>, <<2, 3>>) EXCEPT !.urgencyLevel = "low"],
      Context(4, <<>>, <<>>, <<>>) }

CommSuggestionLists ==
    { <<>>, <<Suggestion(1, 2, RsPlain, 5), Suggestion(4, 3, RsPlain, 5)>> }

\* the rounds getCommunicationHistory is asked for, and the rounds cleanup is called in
AskedRounds == {NoRound, 1, 7}
CleanupRounds == {4, 10}

InitComm ==
    /\ NewMemorySystem("werewolf", 1, <<4, 6, 8>>)
    /\ NewCommunicationSystem
    /\ ret = NoCall
    /\ trace = NoTrace
    /\ nOps = 0
    /\ pending = NoRequest
    /\ server = ServerOf(gameContext)

CommGenerate ==
    /\ nOps < MaxCommOps
    /\ \E senderId \in CommSenders : \E c \in CommCases :
          GenerateWerewolfCommunication(senderId, c.context, c.allSpeeches, c.allVotes)
    /\ UNCHANGED <<pending, server>>

CommNegotiate ==
    /\ nOps < MaxCommOps
    /\ \E context \in DayContexts : \E memberSuggestions \in CommSuggestionLists :
          NegotiateKillTarget(context, memberSuggestions)
    /\ UNCHANGED <<pending, server>>

\* the day strategy is made for a decision the team has taken
CommDayStrategy ==
    /\ nOps < MaxCommOps
    /\ Len(teamDecisions) > 0
    /\ \E context \in DayContexts :
          GenerateDayStrategy(context, teamDecisions[Len(teamDecisions)])
    /\ UNCHANGED <<pending, server>>

CommGetHistory ==
    /\ nOps < MaxCommOps
    /\ \E round \in AskedRounds : GetCommunicationHistory(round)
    /\ UNCHANGED <<pending, server>>

CommGetDecisions == nOps < MaxCommOps /\ GetTeamDecisions /\ UNCHANGED <<pending, server>>

CommCleanup ==
    /\ nOps < MaxCommOps
    /\ \E currentRound \in CleanupRounds : Cleanup(currentRound)
    /\ UNCHANGED <<pending, server>>

NextComm ==
    \/ CommGenerate
    \/ CommNegotiate
    \/ CommDayStrategy
    \/ CommGetHistory
    \/ CommGetDecisions
    \/ CommCleanup

SpecComm == InitComm /\ [][NextComm]_vars

-----------------------------------------------------------------------------
(* SpecServer: one PlayerServer from its construction on, started and restarted with any
   role *)

MaxServerOps == 5

StartParams(role, playerId, teammates) ==
    [gameId |-> "game", role |-> role, playerId |-> playerId, teammates |-> teammates]

\* player 1 as a wolf with teammates 1 and 4, as the seer and as a villager
StartCases ==
    { StartParams("werewolf", 1, <<1, 4>>),
      StartParams("seer", 1, <<>>),
      StartParams("villager", 1, <<>>) }

PlayerContext(round, alive, allSpeeches, allVotes) ==
    [round |-> round, alivePlayers |-> Alive(alive), allSpeeches |-> allSpeeches,
     allVotes |-> allVotes]

\* round 1: player 2 suspects wolf 4; round 2: player 5 claims the seer
ServerContexts ==
    { PlayerContext(1, <<1, 2, 3, 4, 5>>, << <<Speech(2, TxSuspectFour)>> >>, <<>>),
      PlayerContext(2, <<1, 2, 4, 5>>,
                    << <<Speech(2, TxSuspectFour)>>, <<Speech(5, WoShiYuYanJia)>> >>,
                    << <<Vote(2, 4), Vote(5, 4)>> >>) }

\* the context of a vote: players 2 and 3 alive with the speeches of HistoryUnsure
VoteContexts == { PlayerContext(4, <<2, 3>>, HistoryUnsure, <<>>) }

\* a PlayerContext with the phase speak reads
InPhase(phase, context) ==
    [f \in DOMAIN context \cup {"currentPhase"} |->
        IF f = "currentPhase" THEN phase ELSE context[f]]

\* the contexts of speak: round 2 by day, after player 1 (self) and player 3 have spoken
\* and players 2 and 3 have voted in both rounds; round 3 by night, with nothing said or
\* voted yet in that round
SpeakContexts ==
    { InPhase("day",
              PlayerContext(2, <<1, 2, 3>>,
                            << <<Speech(2, TxSeer)>>, <<Speech(1, TxPass), Speech(3, TxUnsure)>> >>,
                            << <<Vote(2, 3), Vote(3, 2)>>, <<Vote(2, 1), Vote(3, 2)>> >>)),
      InPhase("night",
              PlayerContext(3, <<1, 2, 3>>,
                            << <<Speech(2, TxSeer)>>, <<Speech(1, TxPass), Speech(3, TxUnsure)>> >>,
                            << <<Vote(2, 3), Vote(3, 2)>> >>)) }

InitServer ==
    /\ server = NewServer
    /\ memories = <<>>
    /\ playerProfiles = <<>>
    /\ gameContext = [myRole |-> NoRole, myPlayerId |-> NoPlayer, teammates |-> <<>>,
                      currentRound |-> 1, currentPhase |-> "day"]
    /\ nextId = 1
    /\ NewCommunicationSystem
    /\ ret = NoCall
    /\ trace = NoTrace
    /\ nOps = 0
    /\ pending = NoRequest

ServerStartGame ==
    /\ nOps < MaxServerOps
    /\ \E params \in StartCases : StartGame(params)
    /\ UNCHANGED pending

ServerVote ==
    /\ nOps < MaxServerOps
    /\ \E context \in VoteContexts : PlayerVote(context)
    /\ UNCHANGED pending

ServerWerewolfCommunicate ==
    /\ nOps < MaxServerOps
    /\ \E context \in ServerContexts : WerewolfCommunicate(context)
    /\ UNCHANGED pending

ServerSpeak ==
    /\ nOps < MaxServerOps
    /\ \E context \in SpeakContexts : PlayerSpeak(context)
    /\ UNCHANGED pending

NextServer ==
    \/ ServerStartGame
    \/ ServerSpeak
    \/ ServerVote
    \/ ServerWerewolfCommunicate

SpecServer == InitServer /\ [][NextServer]_vars

-----------------------------------------------------------------------------
(* PlayerServer: generateWithLangfuse.  The running call is held in pending: its        *)
(* functionId, the loop counter attempt, lastError (<<>> is undefined), where it stands *)
(* (pc) and the outcome of every completion attempt made so far.                        *)

\* 'parse'
ParseMarker ==
    <<"p", "a", "r", "s", "e">>

\* 'No object generated'
NoObjectMarker ==
    <<"N", "o", " ", "o", "b", "j", "e", "c", "t", " ", "g", "e", "n", "e", "r", "a", "t",
      "e", "d">>

\* 'API key'
ApiKeyMarker ==
    <<"A", "P", "I", " ", "k", "e", "y">>

\* 'rate limit'
RateLimitMarker ==
    <<"r", "a", "t", "e", " ", "l", "i", "m", "i", "t">>

\* '429'
TooManyMarker ==
    <<"4", "2", "9">>

\* 'timeout'
TimeoutMarker ==
    <<"t", "i", "m", "e", "o", "u", "t">>

\* 'network'
NetworkMarker ==
    <<"n", "e", "t", "w", "o", "r", "k">>

\* 'fetch'
FetchMarker ==
    <<"f", "e", "t", "c", "h">>

\* a variant that retries every functionId three times
MaxRetriesAlwaysThree(functionId) == 3

\* functionId === 'ability-generation' ? 3 : 1
MaxRetries(functionId) == IF functionId = "ability-generation" THEN 3 ELSE 1

\* lastError.message.includes('parse') || lastError.message.includes('No object generated')
IsParseError(message) == Includes(message, ParseMarker) \/ Includes(message, NoObjectMarker)

\* the catch block: after a parse error with attempts left the call waits and continues;
\* otherwise the block ends and the loop goes on to attempt++ and its test
AfterFailure(call, message) ==
    IF call.attempt < MaxRetries(call.functionId) /\ IsParseError(message)
    THEN [call EXCEPT !.pc = "delay"]
    ELSE [call EXCEPT !.pc = "loop", !.attempt = call.attempt + 1]

\* the text appended to 'Failed to generate <functionId>' for lastError
ErrorDetail(message) ==
    IF Includes(message, ApiKeyMarker)
    THEN <<"API", "mi4", "yao4x", "cuo4", "wu4", "huo4", "wei4", "pei4", "zhi4">>
    ELSE IF Includes(message, RateLimitMarker) \/ Includes(message, TooManyMarker)
    THEN <<"API", "qing3", "qiu2", "pin2", "lv4", "xian4", "zhi4x">>
    ELSE IF Includes(message, TimeoutMarker)
    THEN <<"qing3", "qiu2", "chao1", "shi2">>
    ELSE IF Includes(message, NetworkMarker) \/ Includes(message, FetchMarker)
    THEN <<"wang3", "luo4", "lian2", "jie1", "cuo4", "wu4">>
    ELSE IF IsParseError(message)
    THEN <<"AI", "xiang3", "ying4", "ge2", "shi4", "cuo4", "wu4", ",", "wu2", "fa3",
           "jie3", "xi1", "wei2", "you3x", "xiao4", "JSON">>
    ELSE message

\* errorMessage; lastError is set whenever the loop ends without a return
ErrorMessage(functionId, lastError) ==
    <<"Failed to generate ", functionId>>
    \o (IF lastError # <<>> THEN <<":", " ">> \o ErrorDetail(lastError) ELSE <<>>)

\* the call at the head of its loop, before the first attempt
NewGeneration(functionId) ==
    [functionId |-> functionId, attempt |-> 1, lastError |-> <<>>, pc |-> "loop",
     outcomes |-> <<>>, waiting |-> TRUE]

\* an attempt is made: the loop test attempt <= maxRetries holds
AtAttempt == pending.pc = "loop" /\ pending.attempt <= MaxRetries(pending.functionId)

\* generateObject resolves: return result.object
AttemptSucceeds ==
    /\ AtAttempt
    /\ pending' = [pending EXCEPT !.pc = "returned", !.waiting = FALSE,
                                  !.outcomes = Append(@, [attempt |-> pending.attempt,
                                                          error |-> <<>>])]
    /\ ret' = [op |-> "generateWithLangfuse", args |-> [functionId |-> pending.functionId],
               result |-> [objectOfAttempt |-> pending.attempt], threw |-> FALSE]
    /\ nOps' = nOps + 1
    /\ UNCHANGED <<memVars, nextId, commVars, trace, server>>

\* generateObject rejects with an error of the given message: the catch block
AttemptFails(message) ==
    /\ AtAttempt
    /\ pending' = [AfterFailure(pending, message)
                      EXCEPT !.lastError = message,
                             !.outcomes = Append(@, [attempt |-> pending.attempt,
                                                     error |-> message])]
    /\ UNCHANGED <<memVars, nextId, commVars, ret, trace, nOps, server>>

\* the timer of setTimeout(resolve, 1000 * attempt) fires: continue, attempt++
RetryAfterDelay ==
    /\ pending.pc = "delay"
    /\ pending' = [pending EXCEPT !.pc = "loop", !.attempt = @ + 1]
    /\ UNCHANGED <<memVars, nextId, commVars, ret, trace, nOps, server>>

\* the loop test fails: throw new Error(errorMessage)
ThrowGenerationError ==
    /\ pending.pc = "loop" /\ pending.attempt > MaxRetries(pending.functionId)
    /\ pending' = [pending EXCEPT !.pc = "thrown", !.waiting = FALSE]
    /\ ret' = [op |-> "generateWithLangfuse", args |-> [functionId |-> pending.functionId],
               result |-> ErrorMessage(pending.functionId, pending.lastError),
               threw |-> TRUE]
    /\ nOps' = nOps + 1
    /\ UNCHANGED <<memVars, nextId, commVars, trace, server>>

-----------------------------------------------------------------------------
(* SpecGenerate: one generateWithLangfuse call of a started server, for each of the four
   functionIds the server uses and every sequence of outcomes of its completion
   attempts; SpecGenerateLive adds that a step that can be taken is taken: every
   completion request settles and every timer fires *)

FunctionIds ==
    {"speech-generation", "vote-generation", "ability-generation", "last-words-generation"}

\* Failed to parse JSON
MsgParse ==
    <<"F", "a", "i", "l", "e", "d", " ", "t", "o", " ", "p", "a", "r", "s", "e", " ", "J",
      "S", "O", "N">>

\* No object generated: response did not match schema.
MsgNoObject ==
    <<"N", "o", " ", "o", "b", "j", "e", "c", "t", " ", "g", "e", "n", "e", "r", "a", "t",
      "e", "d", ":", " ", "r", "e", "s", "p", "o", "n", "s", "e", " ", "d", "i", "d", " ",
      "n", "o", "t", " ", "m", "a", "t", "c", "h", " ", "s", "c", "h", "e", "m", "a", ".">>

\* Invalid API key
MsgApiKey ==
    <<"I", "n", "v", "a", "l", "i", "d", " ", "A", "P", "I", " ", "k", "e", "y">>

\* rate limit exceeded
MsgRateLimit ==
    <<"r", "a", "t", "e", " ", "l", "i", "m", "i", "t", " ", "e", "x", "c", "e", "e", "d",
      "e", "d">>

\* Request timeout
MsgTimeout ==
    <<"R", "e", "q", "u", "e", "s", "t", " ", "t", "i", "m", "e", "o", "u", "t">>

\* fetch failed
MsgFetch ==
    <<"f", "e", "t", "c", "h", " ", "f", "a", "i", "l", "e", "d">>

\* Parse error
MsgCapitalParse ==
    <<"P", "a", "r", "s", "e", " ", "e", "r", "r", "o", "r">>

ErrorMessages ==
    {MsgParse, MsgNoObject, MsgApiKey, MsgRateLimit, MsgTimeout, MsgFetch, MsgCapitalParse}

InitGenerate ==
    /\ \E role \in Roles :
          NewMemorySystem(role, 1, IF role = "werewolf" THEN <<2>> ELSE <<>>)
    /\ NewCommunicationSystem
    /\ server = ServerOf(gameContext)
    /\ ret = NoCall
    /\ trace = NoTrace
    /\ nOps = 0
    /\ \E functionId \in FunctionIds : pending = NewGeneration(functionId)

GenerateFails == \E message \in ErrorMessages : AttemptFails(message)

NextGenerate ==
    \/ AttemptSucceeds
    \/ GenerateFails
    \/ RetryAfterDelay
    \/ ThrowGenerationError

SpecGenerate == InitGenerate /\ [][NextGenerate]_vars

SpecGenerateLive == SpecGenerate /\ WF_vars(NextGenerate)

-----------------------------------------------------------------------------
(* The store and its cap (SpecEvict) *)

InsertingOps == {"analyzeSpeech", "analyzeVotingPattern", "deduceRoles", "generateStrategy"}

\* C1: when a call that inserts entries (analyzeSpeech, analyzeVotingPattern, deduceRoles,
\* generateStrategy) returns, the store holds at most 100 entries.
C1_StoreAtMostCapOnReturn ==
    ret.op \in InsertingOps => Len(memories) <= MemoryCap

\* an inserting call has returned with the store exactly at the cap
C1_StoreFull ==
    ret.op \in InsertingOps /\ Len(trace.steps) > 0 /\ Len(memories) = MemoryCap

\* the entries of pushed that kept does not hold
Evicted(pushed, kept) == SelectSeq(pushed, LAMBDA m : ~InSeq(m, kept))

\* C2: an addMemory whose push brings the store over 100 entries returns with exactly 80,
\* all of them entries of the pushed store, and no entry it evicted has a strictly higher
\* relevance * confidence than one it kept; an addMemory whose push leaves at most 100
\* evicts nothing.
C2_KeepsTheBestEighty ==
    /\ \A i \in 1..Len(trace.steps) :
          /\ trace.steps[i].pushedLen > MemoryCap => trace.steps[i].keptLen = MemoryKeep
          /\ trace.steps[i].pushedLen <= MemoryCap => trace.steps[i].dropped = 0
    /\ Len(trace.evictPushed) > MemoryCap =>
          /\ Len(trace.evictKept) = MemoryKeep
          /\ \A k \in 1..Len(trace.evictKept) : InSeq(trace.evictKept[k], trace.evictPushed)
          /\ \A gone \in {Evicted(trace.evictPushed, trace.evictKept)} :
             \A e \in 1..Len(gone) : \A k \in 1..Len(trace.evictKept) :
                Score(gone[e]) <= Score(trace.evictKept[k])

\* a truncation has evicted an entry of strictly lower score than one it kept, and one of
\* the same score as one it kept
C2_EvictionAmongUnequalScores ==
    /\ Len(trace.evictPushed) > MemoryCap
    /\ \E gone \in {Evicted(trace.evictPushed, trace.evictKept)} :
       \E e \in 1..Len(gone) :
          /\ \E k \in 1..Len(trace.evictKept) : Score(gone[e]) < Score(trace.evictKept[k])
          /\ \E k \in 1..Len(trace.evictKept) : Score(gone[e]) = Score(trace.evictKept[k])

\* C3, as stated: at no point, the point between the push and the truncation inside one
\* addMemory included, does the store hold more than 100 entries.
C3_NeverOverCapEvenMomentarily ==
    /\ Len(memories) <= MemoryCap
    /\ \A i \in 1..Len(trace.steps) :
          trace.steps[i].pushedLen <= MemoryCap /\ trace.steps[i].keptLen <= MemoryCap

\* C3, amended: the store never holds more than 101 entries; it holds 101 only between the
\* push and the truncation inside one addMemory, and at most 100 whenever addMemory returns.
C3_OverCapOnlyByOneInsideAddMemory ==
    /\ Len(memories) <= MemoryCap
    /\ \A i \in 1..Len(trace.steps) :
          trace.steps[i].pushedLen <= MemoryCap + 1 /\ trace.steps[i].keptLen <= MemoryCap

\* an addMemory has held 101 entries between its push and its truncation
C3_HundredAndOneAfterPush ==
    \E i \in 1..Len(trace.steps) : trace.steps[i].pushedLen = MemoryCap + 1

-----------------------------------------------------------------------------
(* The entries of the store (Spec) *)

\* C4: every entry of the store has 0 <= confidence <= 1 and 0 <= relevance <= 1
\* (0..100 in hundredths).
C4_ConfidenceAndRelevanceInUnitRange ==
    \A i \in 1..Len(memories) :
       /\ 0 <= memories[i].confidence /\ memories[i].confidence <= 100
       /\ 0 <= memories[i].relevance /\ memories[i].relevance <= 100

\* the store holds the analysis of a speech that hits all five buckets (confidence at the
\* cap of 1) next to an entry of relevance 1 and an entry about a teammate
C4_EntriesAtTheCaps ==
    /\ \E i \in 1..Len(memories) :
          memories[i].type = "speech_analysis" /\ memories[i].confidence = 100
    /\ \E i \in 1..Len(memories) : memories[i].relevance = 100
    /\ \E i \in 1..Len(memories) : InSeq(memories[i].playerId, gameContext.teammates)

\* player p has a speech with this content in some round of allSpeeches
Said(allSpeeches, p, content) ==
    \E r \in 1..Len(allSpeeches) : \E j \in 1..Len(allSpeeches[r]) :
       allSpeeches[r][j] = Speech(p, content)

\* C5: analyzeSpeech on a speech "我不是预言家" of player p, when allSpeeches already holds
\* a speech "我是预言家" of p, inserts a contradiction entry for p with confidence 0.8.
C5_DenialAfterClaimRecorded ==
    ( /\ ret.op = "analyzeSpeech"
      /\ ret.args.speech.content = WoBuShiYuYanJia
      /\ Said(ret.args.allSpeeches, ret.args.speech.playerId, WoShiYuYanJia) )
    => \E i \in 1..Len(trace.steps) :
          /\ trace.steps[i].entry.type = "contradiction"
          /\ trace.steps[i].entry.playerId = ret.args.speech.playerId
          /\ trace.steps[i].entry.confidence = 80

-----------------------------------------------------------------------------
(* The team decision (SpecNegotiate) *)

\* the suggestions of the list that name target
SuggestionsFor(suggestions, target) ==
    SelectSeq(suggestions, LAMBDA x : x.suggestedTarget = target)

SuggestedTargets(suggestions) ==
    {suggestions[i].suggestedTarget : i \in 1..Len(suggestions)}

RECURSIVE PrioritySum(_)
PrioritySum(suggestions) ==
    IF Len(suggestions) = 0 THEN 0
    ELSE Head(suggestions).priority + PrioritySum(Tail(suggestions))

\* 0.4 * (number of suggestions for target) + 0.4 * (sum of their priorities)
\* + 0.2 * (1 - risk), in hundredths
WeightedScore(suggestions, target) ==
    LET for == SuggestionsFor(suggestions, target)
    IN 40 * Len(for) + 40 * PrioritySum(for)
       + ((100 - RiskLevel([i \in 1..Len(for) |-> for[i].reason])) * 20) \div 100

Negotiated == ret.op = "negotiateKillTarget"

\* C6: on a non-empty suggestion list negotiateKillTarget returns a suggested target whose
\* weighted score is maximal among the suggested targets.
C6_ReturnsASuggestedTargetOfMaximalScore ==
    (Negotiated /\ Len(ret.args.memberSuggestions) > 0)
    => /\ ~ret.threw
       /\ ret.result.targetPlayerId \in SuggestedTargets(ret.args.memberSuggestions)
       /\ \A t \in SuggestedTargets(ret.args.memberSuggestions) :
             WeightedScore(ret.args.memberSuggestions, t)
                <= WeightedScore(ret.args.memberSuggestions, ret.result.targetPlayerId)

\* the position of the first suggestion of the list that names target
FirstMention(suggestions, target) ==
    CHOOSE i \in 1..Len(suggestions) :
       /\ suggestions[i].suggestedTarget = target
       /\ \A j \in 1..(i - 1) : suggestions[j].suggestedTarget # target

\* the suggested targets whose weighted score is maximal
TopTargets(suggestions) ==
    {t \in SuggestedTargets(suggestions) :
        \A o \in SuggestedTargets(suggestions) :
           WeightedScore(suggestions, o) <= WeightedScore(suggestions, t)}

\* C11: when two or more suggested targets share the maximal weighted score,
\* negotiateKillTarget returns the one of them whose first suggestion comes earliest in the
\* list.
C11_TieGoesToTheEarliestSuggested ==
    (Negotiated /\ Cardinality(TopTargets(ret.args.memberSuggestions)) >= 2)
    => /\ ~ret.threw
       /\ ret.result.targetPlayerId \in TopTargets(ret.args.memberSuggestions)
       /\ \A t \in TopTargets(ret.args.memberSuggestions) :
             FirstMention(ret.args.memberSuggestions, ret.result.targetPlayerId)
                <= FirstMention(ret.args.memberSuggestions, t)

\* C12: every decision negotiateKillTarget returns has finalDecisionMaker equal to the
\* first id of context.aliveWerewolves, which makes it the id of an alive ally.
C12_FinalDecisionMakerIsFirstAliveWolf ==
    (Negotiated /\ ~ret.threw)
    => /\ Len(ret.args.context.aliveWerewolves) > 0
       /\ ret.result.finalDecisionMaker = ret.args.context.aliveWerewolves[1]
       /\ InSeq(ret.result.finalDecisionMaker, ret.args.context.aliveWerewolves)

\* C7: the returned decision has consensus = true exactly when the number of suggestions
\* naming the returned target is strictly greater than half the length of aliveWerewolves.
C7_ConsensusIffStrictMajorityOfSuggestions ==
    (Negotiated /\ ~ret.threw)
    => ( ret.result.consensus
         <=> 2 * Len(SuggestionsFor(ret.args.memberSuggestions, ret.result.targetPlayerId))
                > Len(ret.args.context.aliveWerewolves) )

\* the members of aliveWerewolves that have a suggestion for target in the list
Backers(suggestions, wolves, target) ==
    {wolves[k] : k \in {j \in 1..Len(wolves) :
                           \E i \in 1..Len(suggestions) :
                              /\ suggestions[i].memberId = wolves[j]
                              /\ suggestions[i].suggestedTarget = target}}

\* C8: consensus = true only when a strict majority of the distinct members of
\* aliveWerewolves each have a suggestion for the returned target.
C8_ConsensusOnlyByMajorityOfDistinctWolves ==
    (Negotiated /\ ~ret.threw /\ ret.result.consensus)
    => 2 * Cardinality(Backers(ret.args.memberSuggestions, ret.args.context.aliveWerewolves,
                               ret.result.targetPlayerId))
          > Cardinality({ret.args.context.aliveWerewolves[k] :
                            k \in 1..Len(ret.args.context.aliveWerewolves)})

\* C9: on an empty suggestion list the returned target is the first of targetCandidates when
\* there is one, otherwise the id of the first of alivePlayers, and consensus is false.
C9_EmptyListFallsBackToFirstCandidate ==
    (Negotiated /\ ~ret.threw /\ Len(ret.args.memberSuggestions) = 0)
    => /\ ret.result.consensus = FALSE
       /\ Len(ret.args.context.targetCandidates) > 0
             => ret.result.targetPlayerId = ret.args.context.targetCandidates[1]
       /\ Len(ret.args.context.targetCandidates) = 0
             => ret.result.targetPlayerId = ret.args.context.alivePlayers[1].id

\* no suggestion and candidates 5 and 7: the decision names 5, without consensus
C9_FirstOfFiveAndSeven ==
    /\ Negotiated /\ ~ret.threw
    /\ Len(ret.args.memberSuggestions) = 0
    /\ ret.args.context.targetCandidates = <<5, 7>>
    /\ ret.result.targetPlayerId = 5
    /\ ret.result.consensus = FALSE
    /\ teamDecisions = <<ret.result>>

\* C10: negotiateKillTarget, generateWerewolfCommunication, getMemorySummary,
\* getThreatAssessment, deduceRoles and analyzeSpeech never raise an error, whatever the
\* input: no suggestions, no target candidates and no alive players included.
C10_NoOperationRaises ==
    ret.op \in {"negotiateKillTarget", "generateWerewolfCommunication", "getMemorySummary",
                "getThreatAssessment", "deduceRoles", "analyzeSpeech"}
    => ~ret.threw

-----------------------------------------------------------------------------
(* generateWerewolfCommunication and the message log *)

Communicated == ret.op = "generateWerewolfCommunication"

\* the speeches of the players outside the wolf team, in the order they were made
NonAllySpeeches(args) ==
    SelectSeq(Flatten(args.allSpeeches),
              LAMBDA speech : ~InSeq(speech.playerId, args.context.werewolfTeam))

\* the markers of a seer and of a witch
GodRoleMarkers == {YuYanJia, ChaYan, ZuoWanWoChaLe, NvWu, YaoShui, JiuRen, DuSi}

\* a god-role reveal: the speech contains one of the god-role markers
GodRoleReveal(speech) == \E marker \in GodRoleMarkers : Includes(speech.content, marker)

\* suspicion of an ally: the speech speaks of a wolf, of thinking or suspecting, and of
\* the number of a member of the team
SuspicionOfAlly(speech, team) ==
    /\ Includes(speech.content, LangRen)
    /\ Includes(speech.content, RenWei) \/ Includes(speech.content, HuaiYi)
    /\ \E i \in 1..Len(team) : Includes(speech.content, NumStr(team[i]))

\* the alive players outside the team who neither revealed a god role nor voted for a
\* member of the team, in the order of alivePlayers
SafeTargets(args) ==
    SelectSeq(args.context.alivePlayers,
        LAMBDA player :
            /\ ~InSeq(player.id, args.context.werewolfTeam)
            /\ ~\E i \in 1..Len(NonAllySpeeches(args)) :
                   /\ NonAllySpeeches(args)[i].playerId = player.id
                   /\ GodRoleReveal(NonAllySpeeches(args)[i])
            /\ ~\E r \in 1..Len(args.allVotes) : \E j \in 1..Len(args.allVotes[r]) :
                   /\ args.allVotes[r][j].voterId = player.id
                   /\ InSeq(args.allVotes[r][j].targetId, args.context.werewolfTeam))

\* C13: generateWerewolfCommunication answers in a strict order of priority: (1) when a
\* player outside the team revealed a god role, a target_suggestion of priority high
\* naming the first such speaker in speech order, whatever the threat level; (2) else,
\* when a speech from outside the team voiced suspicion of a member, a coordination
\* message of priority high without suggestedTarget; (3) else, when there is a safe
\* target, a target_suggestion of priority medium naming the first one; (4) else a
\* strategy message of priority low without suggestedTarget.
C13_StrictPriorityOfTheMessage ==
    Communicated =>
        LET said == NonAllySpeeches(ret.args)
            reveals == SelectSeq(said, GodRoleReveal)
            suspected == \E i \in 1..Len(said) :
                            SuspicionOfAlly(said[i], ret.args.context.werewolfTeam)
            safe == SafeTargets(ret.args)
            out == ret.result
        IN IF Len(reveals) > 0
           THEN /\ out.messageType = "target_suggestion"
                /\ out.priority = "high"
                /\ "suggestedTarget" \in DOMAIN out
                /\ out.suggestedTarget = reveals[1].playerId
           ELSE IF suspected
           THEN /\ out.messageType = "coordination"
                /\ out.priority = "high"
                /\ "suggestedTarget" \notin DOMAIN out
           ELSE IF Len(safe) > 0
           THEN /\ out.messageType = "target_suggestion"
                /\ out.priority = "medium"
                /\ "suggestedTarget" \in DOMAIN out
                /\ out.suggestedTarget = safe[1].id
           ELSE /\ out.messageType = "strategy"
                /\ out.priority = "low"
                /\ "suggestedTarget" \notin DOMAIN out

\* player 2 suspected wolf 4 in the first round and player 5 claimed the seer in the
\* second: the message suggests 5 with priority high
C13_RevealOutranksSuspicion ==
    /\ Communicated
    /\ \E i \in 1..Len(NonAllySpeeches(ret.args)) :
          /\ SuspicionOfAlly(NonAllySpeeches(ret.args)[i], ret.args.context.werewolfTeam)
          /\ \E j \in (i + 1)..Len(NonAllySpeeches(ret.args)) :
                GodRoleReveal(NonAllySpeeches(ret.args)[j])
    /\ ret.result.messageType = "target_suggestion"
    /\ ret.result.priority = "high"
    /\ ret.result.suggestedTarget = 5

\* C14: every call of generateWerewolfCommunication appends exactly one message to the
\* log, with the senderId of the call, the round of the context and the messageType
\* returned, and leaves the messages logged before as they were and where they were.
C14_AppendsExactlyOneMessage ==
    [][ret'.op = "generateWerewolfCommunication"
          => /\ Len(messages') = Len(messages) + 1
             /\ SubSeq(messages', 1, Len(messages)) = messages
             /\ messages'[Len(messages')].senderId = ret'.args.senderId
             /\ messages'[Len(messages')].round = ret'.args.context.round
             /\ messages'[Len(messages')].type = ret'.result.messageType]_vars

\* a third message, of wolf 4 in round 7, logged after two messages of other rounds
C14_ThirdMessageBehindTwo ==
    /\ Communicated
    /\ Len(messages) = 3
    /\ ret.args.senderId = 4 /\ ret.args.context.round = 7
    /\ messages[3].senderId = 4 /\ messages[3].round = 7
    /\ messages[3].type = ret.result.messageType
    /\ messages[1].round = 1 /\ messages[2].round = 6

\* C15: after cleanup(c) the log holds exactly the messages logged before whose round r
\* has c - r <= 3, in their order, and the per-round history exactly the rounds with
\* c - r <= 3; for c = 10 every message of round 6 or earlier is gone and every message
\* of round 7, 8, 9 or 10 is kept.
C15_CleanupKeepsTheLastThreeRounds ==
    [][ret'.op = "cleanup"
          => LET c == ret'.args.currentRound
             IN /\ messages' = SelectSeq(messages, LAMBDA msg : c - msg.round <= 3)
                /\ communicationHistory' =
                      SelectSeq(communicationHistory, LAMBDA entry : c - entry.round <= 3)
                /\ c = 10 =>
                      /\ \A i \in 1..Len(messages') : messages'[i].round > 6
                      /\ \A i \in 1..Len(messages) :
                            messages[i].round \in 7..10 => InSeq(messages[i], messages')]_vars

\* cleanup(10) on a log with a message of round 6 and a message of round 7: the first
\* is gone, the second is kept
C15_RoundSixGoneRoundSevenKept ==
    /\ ret.op = "cleanup" /\ ret.args.currentRound = 10
    /\ Len(trace.evictPushed) = 2
    /\ trace.evictPushed[1].round = 6 /\ trace.evictPushed[2].round = 7
    /\ messages = <<trace.evictPushed[2]>>
    /\ Len(communicationHistory) = 1 /\ communicationHistory[1].round = 7

\* s is the beginning of t
IsPrefix(s, t) == Len(s) <= Len(t) /\ SubSeq(t, 1, Len(s)) = s

\* C16: no operation other than cleanup ever removes a logged message: over any sequence
\* of generateWerewolfCommunication, negotiateKillTarget, generateDayStrategy,
\* getCommunicationHistory and getTeamDecisions the log only grows, and none of them does
\* the work of cleanup.
C16_OnlyCleanupRemovesMessages ==
    [][ret'.op # "cleanup"
          => /\ IsPrefix(messages, messages')
             /\ \A i \in 1..Len(communicationHistory) :
                   /\ i <= Len(communicationHistory')
                   /\ communicationHistory'[i].round = communicationHistory[i].round
                   /\ IsPrefix(communicationHistory[i].messages,
                               communicationHistory'[i].messages)]_vars

\* a message of round 1 still in the log after a negotiation and a day strategy made
\* for round 7
C16_OldMessageSurvivesDayStrategy ==
    /\ ret.op = "generateDayStrategy" /\ ret.args.context.round = 7
    /\ Len(teamDecisions) = 1
    /\ Len(messages) = 1 /\ messages[1].round = 1

-----------------------------------------------------------------------------
(* getMemorySummary *)

Summarised == ret.op = "getMemorySummary"

\* an entry getMemorySummary may list
Qualifies(m) == m.relevance > 60 /\ m.confidence > 50

\* C17: two calls of getMemorySummary with the same maxEntries and no insertion between
\* them return the same string, and a call leaves the entries of the store and their
\* order as they were.
C17_SummaryIsRepeatableAndReadOnly ==
    [][ret'.op = "getMemorySummary"
          => /\ memories' = memories
             /\ (ret.op = "getMemorySummary" /\ ret.args.maxEntries = ret'.args.maxEntries)
                   => ret'.result = ret.result]_vars

\* getMemorySummary(1) as the third call, on a store that has several entries to list
\* and is not in score order: the store is left in that order
C17_SecondSummaryOfUnsortedStore ==
    /\ Summarised /\ ret.args.maxEntries = 1 /\ nOps = 3
    /\ ret.result # NoMemoryText
    /\ ret.result = GetMemorySummaryText(memories, 1)
    /\ \E i, j \in 1..Len(memories) :
          i < j /\ Qualifies(memories[i]) /\ Qualifies(memories[j])
                /\ Score(memories[i]) < Score(memories[j])

\* what the claim says of the entries listed, whatever the sentinel
ListsTheBestQualifying(listed, n) ==
    /\ \A i \in 1..Len(listed) : Qualifies(listed[i]) /\ InSeq(listed[i], memories)
    /\ Len(listed) <= n
    /\ \A i \in 1..(Len(listed) - 1) : Score(listed[i]) >= Score(listed[i + 1])
    /\ \A k \in 1..Len(memories) :
          (Qualifies(memories[k]) /\ ~InSeq(memories[k], listed))
             => \A i \in 1..Len(listed) : Score(memories[k]) <= Score(listed[i])
    /\ Len(listed) > 0 =>
          ret.result = <<"important memories", ":", "\n">>
                          \o Join([i \in 1..Len(listed) |-> SummaryLine(listed[i])], <<"\n">>)

\* C18: getMemorySummary(n) lists only entries with relevance > 0.6 and confidence > 0.5,
\* at most n of them, in non-increasing order of relevance x confidence, and omits no
\* qualifying entry that outranks a listed one; it returns the no-memory sentinel exactly
\* when no entry of the store qualifies.
C18_SentinelExactlyWhenNoneQualifies ==
    Summarised =>
        /\ ListsTheBestQualifying(ImportantMemories(memories, ret.args.maxEntries),
                                  ret.args.maxEntries)
        /\ ret.result = NoMemoryText <=> ~\E k \in 1..Len(memories) : Qualifies(memories[k])

\* C18, amended: the same of the entries listed, for n >= 0; the sentinel is returned
\* exactly when nothing is listed, that is when no entry qualifies or n is 0.
C18_SentinelWhenNothingIsListed ==
    (Summarised /\ ret.args.maxEntries >= 0) =>
        /\ ListsTheBestQualifying(ImportantMemories(memories, ret.args.maxEntries),
                                  ret.args.maxEntries)
        /\ ret.result = NoMemoryText
              <=> \/ ~\E k \in 1..Len(memories) : Qualifies(memories[k])
                  \/ ret.args.maxEntries = 0

\* getMemorySummary(1) on a store whose best qualifying entry is not the first one:
\* the one line is that entry's
C18_OneLineForTheBestOfSeveral ==
    /\ Summarised /\ ret.args.maxEntries = 1
    /\ \E i, j \in 1..Len(memories) :
          /\ i < j /\ Qualifies(memories[i]) /\ Qualifies(memories[j])
          /\ Score(memories[i]) < Score(memories[j])
          /\ \A k \in 1..Len(memories) :
                Qualifies(memories[k]) => Score(memories[k]) <= Score(memories[j])
          /\ ret.result = <<"important memories", ":", "\n">> \o SummaryLine(memories[j])

-----------------------------------------------------------------------------
(* getThreatAssessment *)

ThreatAssessed == ret.op = "getThreatAssessment"

\* the three signals of a profile, in hundredths, capped at 1
ExpectedThreat(profile) ==
    Min(100,
        (IF profile.suspectedRole = "werewolf" /\ gameContext.myRole # "werewolf"
         THEN 80 ELSE 0)
        + (IF Len(profile.contradictions) > 2 THEN 30 ELSE 0)
        + (IF \E i \in 1..Len(memories) :
                 /\ memories[i].type = "vote_pattern"
                 /\ memories[i].playerId = profile.playerId
                 /\ Includes(memories[i].content, KeYi)
           THEN 20 ELSE 0))

\* the players a role_deduction entry of the store holds to be a wolf: deduceRoles
\* records one entry for every role it infers
InferredWolves ==
    {memories[i].playerId : i \in {k \in 1..Len(memories) :
                                      /\ memories[k].type = "role_deduction"
                                      /\ Includes(memories[k].content, <<"werewolf">>)}}

\* C20: getThreatAssessment returns, for each profiled player other than self, the threat
\* min(1, 0.8 [suspected wolf and own role not wolf] + 0.3 [more than 2 contradictions]
\* + 0.2 [a vote_pattern entry of the player has the suspicion marker]); a player is
\* listed if and only if that total is above 0.3, and the list is in non-increasing
\* order of threat.  In particular a profiled player whom deduceRoles has inferred to be
\* a wolf is listed with threat at least 0.8 when the own role is not wolf.
C20_ThreatListMatchesTheSignals ==
    ThreatAssessed =>
        /\ \A i \in 1..Len(playerProfiles) :
              LET profile == playerProfiles[i]
              IN profile.playerId # gameContext.myPlayerId =>
                    ((\E k \in 1..Len(ret.result) : ret.result[k].playerId = profile.playerId)
                        <=> ExpectedThreat(profile) > 30)
        /\ \A k \in 1..Len(ret.result) :
              /\ ret.result[k].playerId # gameContext.myPlayerId
              /\ \E i \in 1..Len(playerProfiles) :
                    /\ playerProfiles[i].playerId = ret.result[k].playerId
                    /\ ret.result[k].threatLevel = ExpectedThreat(playerProfiles[i])
        /\ \A k \in 1..(Len(ret.result) - 1) :
              ret.result[k].threatLevel >= ret.result[k + 1].threatLevel
        /\ gameContext.myRole # "werewolf" =>
              \A i \in 1..Len(playerProfiles) :
                 (/\ playerProfiles[i].playerId # gameContext.myPlayerId
                  /\ playerProfiles[i].playerId \in InferredWolves)
                    => \E k \in 1..Len(ret.result) :
                          /\ ret.result[k].playerId = playerProfiles[i].playerId
                          /\ ret.result[k].threatLevel >= 80

-----------------------------------------------------------------------------
(* PlayerServer.werewolfCommunicate *)

\* C19: after any sequence of startGame calls, none and restarts with another role
\* included, werewolfCommunicate raises an error whenever the current role is not
\* werewolf or the game was never started, and then appends no message to any log of the
\* coordination system and inserts no memory entry; it runs the coordination logic only
\* when the current role is werewolf.
C19_OnlyAWolfCommunicates ==
    [][ret'.op = "werewolfCommunicate"
          => IF server.role # "werewolf" \/ ~server.aiMemory
             THEN /\ ret'.threw
                  /\ messages' = messages
                  /\ communicationHistory' = communicationHistory
                  /\ teamDecisions' = teamDecisions
                  /\ memories' = memories
             ELSE /\ ~ret'.threw
                  /\ Len(messages') = Len(messages) + 1
                  /\ memories' = memories]_vars

\* a wolf has logged a message; restarted as the seer, with a deduction in the store
\* after a vote, the server still holds the communication system and refuses to
\* communicate: the log and the store are as they were
C19_RefusedAfterRestartAsSeer ==
    /\ ret.op = "werewolfCommunicate" /\ ret.threw
    /\ server.role = "seer" /\ server.werewolfComm
    /\ Len(messages) = 1
    /\ Len(memories) = 1
    /\ nOps = 5

-----------------------------------------------------------------------------
(* AIMemorySystem.deduceRoles *)

Deduced == ret.op = "deduceRoles"

\* the players of a deduceRoles call: the alive ones and every speaker
DeducePlayers ==
    {ret.args.alivePlayers[i].id : i \in 1..Len(ret.args.alivePlayers)}
    \cup {s.playerId : s \in {Flatten(ret.args.allSpeeches)[i] :
                                 i \in 1..Len(Flatten(ret.args.allSpeeches))}}

\* the four role scores of a player, each the sum in doubles of one increment for every
\* speech of the player that counts for the role
RoleScores(p) ==
    LET speeches == PlayerSpeeches(ret.args.allSpeeches, p)
        i == ProfileIndex(playerProfiles, p)
        hedged == Accumulate(PointOne, Count(speeches, BuQueDing, KeNeng))
    IN <<[role |-> "werewolf",
          score |-> IF i > 0 /\ Len(playerProfiles[i].contradictions) > 1
                    THEN DblAdd(hedged, PointThree) ELSE hedged],
         [role |-> "seer", score |-> Accumulate(PointTwo, Count(speeches, YuYanJia, ChaYan))],
         [role |-> "witch", score |-> Accumulate(PointTwo, Count(speeches, NvWu, Yao))],
         [role |-> "villager",
          score |-> Accumulate(PointOne, Count(speeches, WoShiCunMin, HaoRen))]>>

\* no role scores higher than the k-th, and every role listed before it scores lower
HighestEarliest(scores, k) ==
    /\ \A j \in 1..Len(scores) : ~DblLess(scores[k].score, scores[j].score)
    /\ \A j \in 1..(k - 1) : DblLess(scores[j].score, scores[k].score)

DeductionsRecordedFor(p) ==
    Cardinality({i \in 1..Len(trace.steps) :
                    /\ trace.steps[i].entry.type = "role_deduction"
                    /\ trace.steps[i].entry.playerId = p})

\* C21: deduceRoles returns a mapping entry for player p, and inserts exactly one
\* role_deduction entry for p, if and only if p is in alivePlayers, p is not self and the
\* highest role score of p is above 0.3; the reported role is the highest-scoring one,
\* ties going to the earlier of wolf, seer, witch, villager; the reported confidence is
\* min(score, 0.8); the wolf score counts 0.3 more for a profile with more than one
\* recorded contradiction.
C21_DeducedExactlyAboveThreeTenths ==
    Deduced =>
        \A p \in DeducePlayers :
           \E scores \in {RoleScores(p)} : \E k \in 1..4 :
              LET listed == {i \in 1..Len(ret.result) : ret.result[i].playerId = p}
                  due == /\ \E i \in 1..Len(ret.args.alivePlayers) :
                               ret.args.alivePlayers[i].id = p
                         /\ p # gameContext.myPlayerId
                         /\ DblLess(PointThree, scores[k].score)
              IN /\ HighestEarliest(scores, k)
                 /\ Cardinality(listed) = (IF due THEN 1 ELSE 0)
                 /\ DeductionsRecordedFor(p) = (IF due THEN 1 ELSE 0)
                 /\ \A i \in listed :
                       /\ ret.result[i].role = scores[k].role
                       /\ ret.result[i].confidence = DblMin(scores[k].score, PointEight)

\* four hedging speeches make player 3 a wolf at 0.4, recorded once; player 2, a seer at
\* 0.2 only, and player 1, who is self, are not listed
C21_OnlyTheHedgerIsDeduced ==
    /\ Deduced
    /\ ret.args.allSpeeches = HistoryUnsure
    /\ Len(ret.result) = 1
    /\ ret.result[1].playerId = 3
    /\ ret.result[1].role = "werewolf"
    /\ ret.result[1].confidence = [h |-> 40, d |-> 80]
    /\ DeductionsRecordedFor(3) = 1
    /\ DeductionsRecordedFor(2) = 0

-----------------------------------------------------------------------------
(* AIMemorySystem.analyzeSpeech *)

SpeechAnalysed == ret.op = "analyzeSpeech"

\* the number of the five topic buckets the speech matches
MatchedBuckets(speech) ==
    LET content == ToLower(speech.content)
    IN Cardinality({b \in {<<LangRen, Sha>>, <<YuYanJia, ChaYan>>, <<NvWu, Yao>>,
                           <<TouPiao, ChuJu>>, <<ZuoWan, YeLi>>} :
                       BucketHit(content, b[1], b[2])})

\* the contradictions detected in the call: one for each earlier speech of the speaker
\* and pattern that apply
DetectedInCall ==
    DetectContradictions(ret.args.speech.playerId, ret.args.speech, ret.args.allSpeeches)

\* C22: each analyzeSpeech call inserts exactly one speech_analysis entry for the speaker,
\* with confidence min(1, 0.5 + 0.1 x the number of matched topic buckets out of five),
\* followed by at most one contradiction entry (confidence 0.8, relevance 0.9) however
\* many contradictions were detected, and by none when no contradiction was detected.
C22_OneAnalysisAndAtMostOneContradiction ==
    SpeechAnalysed =>
        /\ Len(trace.steps) = (IF Len(DetectedInCall) > 0 THEN 2 ELSE 1)
        /\ trace.steps[1].entry.type = "speech_analysis"
        /\ trace.steps[1].entry.playerId = ret.args.speech.playerId
        /\ trace.steps[1].entry.confidence = Min(100, 50 + 10 * MatchedBuckets(ret.args.speech))
        /\ Len(trace.steps) = 2 =>
              /\ trace.steps[2].entry.type = "contradiction"
              /\ trace.steps[2].entry.playerId = ret.args.speech.playerId
              /\ trace.steps[2].entry.confidence = 80
              /\ trace.steps[2].entry.relevance = 90

\* a third check result of player 3 contradicts both earlier ones: two contradictions
\* detected, one contradiction entry inserted behind the speech_analysis entry
C22_TwoContradictionsOneEntry ==
    /\ SpeechAnalysed
    /\ Len(DetectedInCall) = 2
    /\ Len(trace.steps) = 2
    /\ trace.steps[2].entry.type = "contradiction"
    /\ Cardinality({i \in 1..Len(memories) : memories[i].type = "contradiction"}) = 1

-----------------------------------------------------------------------------
(* AIMemorySystem.updatePlayerProfile *)

\* the behavior tags of a player's profile, none without a profile
BehaviorsOf(profiles, playerId) ==
    IF ProfileIndex(profiles, playerId) > 0
    THEN profiles[ProfileIndex(profiles, playerId)].behaviors
    ELSE <<>>

\* C23: every analyzeSpeech call appends one behavior tag for the current round to the
\* speaker's profile, for every speech text, a speech that matches none of the five topic
\* buckets included.
C23_EverySpeechLeavesABehaviorTag ==
    [][ret'.op = "analyzeSpeech"
          => /\ Len(BehaviorsOf(playerProfiles', ret'.args.speech.playerId))
                   = Len(BehaviorsOf(playerProfiles, ret'.args.speech.playerId)) + 1
             /\ BehaviorsOf(playerProfiles', ret'.args.speech.playerId)[
                    Len(BehaviorsOf(playerProfiles', ret'.args.speech.playerId))].round
                   = gameContext.currentRound]_vars

-----------------------------------------------------------------------------
(* AIMemorySystem.analyzeVotingPattern *)

VotesAnalysed == ret.op = "analyzeVotingPattern"

VotesCast(p) == Len(VotesOf(ret.args.allVotes, p))

\* the votes of p that sit in the back half of the order of their own round: the position,
\* counted from 0, is above half the number of votes of that round
BackHalfVotes(p) ==
    Cardinality({rj \in {<<r, j>> : r \in 1..Len(ret.args.allVotes), j \in 1..5} :
                    /\ rj[2] <= Len(ret.args.allVotes[rj[1]])
                    /\ ret.args.allVotes[rj[1]][rj[2]].voterId = p
                    /\ 2 * (rj[2] - 1) > Len(ret.args.allVotes[rj[1]])})

\* the vote_pattern entries the call inserted for p with the given text and confidence
PatternEntries(p, text, confidence) ==
    Cardinality({i \in 1..Len(trace.steps) :
                    /\ trace.steps[i].entry.type = "vote_pattern"
                    /\ trace.steps[i].entry.playerId = p
                    /\ trace.steps[i].entry.content = text
                    /\ trace.steps[i].entry.confidence = confidence})

VoterIds == {Flatten(ret.args.allVotes)[i].voterId : i \in 1..Len(Flatten(ret.args.allVotes))}

\* C24: analyzeVotingPattern records a follower vote_pattern entry (confidence 0.6) for a
\* player with at least 2 votes if and only if more than 60% of that player's votes sit
\* in the back half of the vote order of the round in which each vote was cast, also when
\* the player voted for the same target in more than one round.
C24_FollowerByTheRoundOfEachVote ==
    VotesAnalysed =>
        \A p \in VoterIds :
           VotesCast(p) >= 2 =>
              PatternEntries(p, FollowerText, 60)
                 = (IF 10 * BackHalfVotes(p) > 6 * VotesCast(p) THEN 1 ELSE 0)

\* C25: analyzeVotingPattern records a scatter vote_pattern entry (confidence 0.5) for
\* exactly those players who cast at least 2 votes across all rounds with pairwise
\* distinct targets, whether or not they are followers, and records no vote_pattern entry
\* at all for a player with fewer than 2 votes.
C25_ScatterExactlyForDistinctTargets ==
    VotesAnalysed =>
        \A p \in VoterIds :
           LET votes == VotesOf(ret.args.allVotes, p)
               distinct == \A i, j \in 1..Len(votes) :
                              i # j => votes[i].targetId # votes[j].targetId
           IN /\ PatternEntries(p, ScatterText, 50)
                    = (IF Len(votes) >= 2 /\ distinct THEN 1 ELSE 0)
              /\ Len(votes) < 2 =>
                    ~\E i \in 1..Len(trace.steps) :
                         /\ trace.steps[i].entry.type = "vote_pattern"
                         /\ trace.steps[i].entry.playerId = p

\* of five voters, player 2 is recorded both as a follower and as scattering, player 1 as
\* scattering only, and player 4, who voted once, not at all
C25_ScatterBesideFollowerNoneForOneVote ==
    /\ VotesAnalysed
    /\ PatternEntries(2, FollowerText, 60) = 1 /\ PatternEntries(2, ScatterText, 50) = 1
    /\ PatternEntries(1, FollowerText, 60) = 0 /\ PatternEntries(1, ScatterText, 50) = 1
    /\ VotesCast(4) = 1
    /\ PatternEntries(4, ScatterText, 50) = 0

-----------------------------------------------------------------------------
(* AIMemorySystem.generateStrategy *)

StrategyGenerated == ret.op = "generateStrategy"

\* the fixed risk level of the strategy of each own role
RiskOfRole(role) ==
    CASE role = "werewolf" -> "medium"
      [] role = "seer" -> "high"
      [] role = "witch" -> "low"
      [] role = "villager" -> "low"

\* the opening of the primary strategy of each own role
StrategyOfRole(role) ==
    CASE role = "werewolf" -> GenerateWerewolfStrategy(playerProfiles).primaryStrategy
      [] role = "seer" -> GenerateSeerStrategy(playerProfiles).primaryStrategy
      [] role = "witch" -> GenerateWitchStrategy(playerProfiles).primaryStrategy
      [] role = "villager" -> GenerateVillagerStrategy(playerProfiles).primaryStrategy

\* C26: every generateStrategy call, for each of the four own roles, inserts exactly one
\* strategy entry with confidence 0.7 and relevance 1.0 and returns the strategy of the
\* generator selected by the own role, whose risk level is fixed: medium for a wolf, high
\* for a seer, low for a witch and low for a villager.
C26_OneStrategyEntryAndTheRiskOfTheRole ==
    StrategyGenerated =>
        /\ gameContext.myRole \in Roles
        /\ Len(trace.steps) = 1
        /\ trace.steps[1].entry.type = "strategy"
        /\ trace.steps[1].entry.confidence = 70
        /\ trace.steps[1].entry.relevance = 100
        /\ ret.result.riskLevel = RiskOfRole(gameContext.myRole)
        /\ ret.result.primaryStrategy = StrategyOfRole(gameContext.myRole)
        /\ Includes(trace.steps[1].entry.content, ret.result.primaryStrategy)

\* a villager's second strategy: low risk, one more strategy entry in a store that holds
\* the first
C26_VillagerSecondStrategyLowRisk ==
    /\ StrategyGenerated
    /\ gameContext.myRole = "villager"
    /\ ret.result.riskLevel = "low"
    /\ Len(trace.steps) = 1
    /\ Cardinality({i \in 1..Len(memories) : memories[i].type = "strategy"}) = 2

-----------------------------------------------------------------------------
(* WerewolfCommunicationSystem.generateDayStrategy *)

DayStrategyMade == ret.op = "generateDayStrategy"

\* the individual strategy returned for a wolf, addressed by its place in the result
StrategyAt(i) == ret.result.individualStrategies[i].strategy

\* C27: generateDayStrategy returns one individual strategy for each member of
\* context.aliveWerewolves and for no one else; the first-listed member gets the leader
\* speech and voting postures and every other member the supporter postures; the caution
\* clause is added to both postures of every member exactly when the urgency is high; the
\* coordination list is the three fixed reminders, followed by the protect-core-members
\* reminder exactly when the urgency is high.
C27_OneStrategyPerAliveWolf ==
    DayStrategyMade =>
        LET context == ret.args.context
            wolves == {context.aliveWerewolves[i] : i \in 1..Len(context.aliveWerewolves)}
            n == Len(ret.result.individualStrategies)
            high == context.urgencyLevel = "high"
        IN /\ {ret.result.individualStrategies[i].werewolfId : i \in 1..n} = wolves
           /\ n = Cardinality(wolves)
           /\ \A i \in 1..n :
                 LET leads == ret.result.individualStrategies[i].werewolfId
                                 = context.aliveWerewolves[1]
                 IN /\ IsPrefix(IF leads THEN LeaderSpeech ELSE MemberSpeech,
                                StrategyAt(i).speechStrategy)
                    /\ IsPrefix(IF leads THEN LeaderVoting ELSE MemberVoting,
                                StrategyAt(i).votingStrategy)
                    /\ Includes(StrategyAt(i).speechStrategy, CarefulSpeech) <=> high
                    /\ Includes(StrategyAt(i).votingStrategy, CarefulVoting) <=> high
           /\ SubSeq(ret.result.coordinationPoints, 1, 3) = CoordinationPoints
           /\ Len(ret.result.coordinationPoints) = (IF high THEN 4 ELSE 3)
           /\ high => ret.result.coordinationPoints[4] = ProtectCore

\* two wolves in a hurry: wolf 1 leads, wolf 4 supports, both told to be careful, four
\* coordination points
C27_LeaderAndSupporterInAHurry ==
    /\ DayStrategyMade
    /\ ret.args.context.urgencyLevel = "high"
    /\ ret.args.context.aliveWerewolves = <<1, 4>>
    /\ Len(ret.result.individualStrategies) = 2
    /\ StrategyAt(1).speechStrategy = LeaderSpeech \o CarefulSpeech
    /\ StrategyAt(2).votingStrategy = MemberVoting \o CarefulVoting
    /\ Len(ret.result.coordinationPoints) = 4

-----------------------------------------------------------------------------
(* AIMemorySystem.calculateRelevance *)

\* the speech matched the wolf, the seer or the witch bucket
MatchedCoreBucket(speech) ==
    \/ BucketHit(ToLower(speech.content), LangRen, Sha)
    \/ BucketHit(ToLower(speech.content), YuYanJia, ChaYan)
    \/ BucketHit(ToLower(speech.content), NvWu, Yao)

\* C28: the relevance of a speech_analysis entry is 0.5, multiplied by 0.7 when the
\* speaker is a declared teammate, then increased by 0.3 when the speech matched the
\* wolf, seer or witch bucket, and capped at 1.0; so it is one of 0.35, 0.5, 0.65 and 0.8,
\* and a speech matching only the voting or the night-information bucket gets no boost.
C28_RelevanceOfASpeechAnalysis ==
    SpeechAnalysed =>
        LET speech == ret.args.speech
            entry == trace.steps[1].entry
            base == IF InSeq(speech.playerId, gameContext.teammates) THEN (50 * 7) \div 10
                    ELSE 50
        IN /\ entry.type = "speech_analysis"
           /\ entry.relevance
                 = Min(100, base + (IF MatchedCoreBucket(speech) THEN 30 ELSE 0))
           /\ entry.relevance \in {35, 50, 65, 80}
           /\ (MatchedBuckets(speech) > 0 /\ ~MatchedCoreBucket(speech))
                 => entry.relevance \in {35, 50}

\* in the store of a wolf: the seer claim of teammate 2 is held at 0.65, and the speech of
\* player 3 about last night's vote, in two buckets but none of the three, enters at 0.5
C28_NoBoostForVotingAndNight ==
    /\ SpeechAnalysed
    /\ ret.args.speech = Speech(3, TxVoteNight)
    /\ MatchedBuckets(ret.args.speech) = 2
    /\ trace.steps[1].entry.relevance = 50
    /\ \E i \in 1..Len(memories) :
          /\ memories[i].type = "speech_analysis"
          /\ memories[i].playerId = 2
          /\ memories[i].relevance = 65

-----------------------------------------------------------------------------
(* AIMemorySystem.addMemory: the order of the store *)

\* the entries of s are in the order of their serial ids
InInsertionOrder(s) == \A i, j \in 1..Len(s) : i < j => s[i].id < s[j].id

\* the entries of s are in descending order of score, entries of equal score in the order
\* of their serial ids
InScoreOrder(s) ==
    \A i, j \in 1..Len(s) :
       i < j => \/ Score(s[i]) > Score(s[j])
                \/ (Score(s[i]) = Score(s[j]) /\ s[i].id < s[j].id)

\* every entry inserted so far is still in the store
NothingEvicted == Len(memories) = nextId - 1

\* C29: in every reachable state the memory store is a chronological log: its entries
\* appear in the order in which they were inserted (the order of their serial ids), also
\* after one or more evictions.
C29_StoreInInsertionOrder == InInsertionOrder(memories)

\* C29, as the code has it: the store is in insertion order until the first eviction.
\* An eviction leaves the MemoryKeep survivors in descending order of score (equal scores
\* in insertion order), and the entries inserted after it follow them in insertion order.
C29_InsertionOrderUntilEvicted ==
    IF NothingEvicted THEN InInsertionOrder(memories)
    ELSE /\ Len(memories) >= MemoryKeep
         /\ InScoreOrder(SubSeq(memories, 1, MemoryKeep))
         /\ InInsertionOrder(SubSeq(memories, MemoryKeep + 1, Len(memories)))
         /\ \A i \in 1..MemoryKeep :
               \A j \in (MemoryKeep + 1)..Len(memories) : memories[i].id < memories[j].id

\* after an eviction and further insertions: more than MemoryKeep entries, the survivors
\* by score in front, and the store as a whole no longer in insertion order
C29_SurvivorsByScoreThenNewEntries ==
    /\ ~NothingEvicted
    /\ Len(memories) > MemoryKeep
    /\ ~InInsertionOrder(memories)

-----------------------------------------------------------------------------
(* WerewolfCommunicationSystem: the team-decision history *)

\* C30: each negotiateKillTarget call appends exactly one new decision record to the
\* team-decision history and leaves every earlier decision record unchanged; no other
\* operation, cleanup included, edits or removes a stored decision.
C30_DecisionsOnlyGrowByNegotiation ==
    [][IF ret'.op = "negotiateKillTarget"
       THEN /\ Len(teamDecisions') = Len(teamDecisions) + 1
            /\ SubSeq(teamDecisions', 1, Len(teamDecisions)) = teamDecisions
       ELSE teamDecisions' = teamDecisions]_vars

-----------------------------------------------------------------------------
(* AIMemorySystem: the player profiles *)

\* the players that have a profile
Profiled(profiles) == {profiles[i].playerId : i \in 1..Len(profiles)}

\* the round a player's profile was last updated in
LastUpdatedOf(profiles, playerId) == profiles[ProfileIndex(profiles, playerId)].lastUpdated

\* C31: a profile exists for player p if and only if analyzeSpeech has been called with p
\* as speaker; there is at most one profile per player, it is never removed, and its
\* lastUpdated is the current round of the store at the latest analyzeSpeech call for p.
\* Stated step by step: the store starts without profiles; an analyzeSpeech call adds the
\* speaker to the profiled players and stamps the speaker's profile with the current
\* round; every other step leaves the profiled players and their stamps alone; no two
\* profiles are of one player.
C31_OneProfilePerAnalysedSpeaker ==
    /\ playerProfiles = <<>>
    /\ [][/\ Profiled(playerProfiles')
               = Profiled(playerProfiles)
                 \cup (IF ret'.op = "analyzeSpeech" THEN {ret'.args.speech.playerId} ELSE {})
          /\ Cardinality(Profiled(playerProfiles')) = Len(playerProfiles')
          /\ \A p \in Profiled(playerProfiles') :
                LastUpdatedOf(playerProfiles', p)
                   = IF ret'.op = "analyzeSpeech" /\ ret'.args.speech.playerId = p
                     THEN gameContext.currentRound
                     ELSE LastUpdatedOf(playerProfiles, p)]_vars

\* player 3 was analysed in round 1 and again in round 2: still one profile, now stamped
\* with round 2
C31_SecondSpeechRestampsTheProfile ==
    /\ ret.op = "analyzeSpeech"
    /\ ret.args.speech.playerId = 3
    /\ gameContext.currentRound = 2
    /\ Len(playerProfiles) = 1
    /\ playerProfiles[1].playerId = 3
    /\ playerProfiles[1].lastUpdated = 2
    /\ Len(memories) >= 2

-----------------------------------------------------------------------------
(* PlayerServer.speak and PlayerServer.vote: the round of the store *)

\* a request the server handled with its memory system
Handled(op) == ret.op = op /\ server.role # NoRole

\* every entry the last request inserted carries the round of the request
StampedWithTheRequest ==
    \A i \in 1..Len(trace.steps) : trace.steps[i].entry.round = ret.args.round

\* C32: for every speak and vote request it handles, PlayerServer advances the round of
\* the memory store to the round of the request before it analyses anything, so every
\* memory entry inserted while handling the request carries the round of the request.
C32_StoreFollowsTheRoundOfEveryRequest ==
    (Handled("speak") \/ Handled("vote"))
       => gameContext.currentRound = ret.args.round /\ StampedWithTheRequest

-----------------------------------------------------------------------------
(* PlayerServer.generateWithLangfuse *)

\* the call has returned or thrown
Finished == pending.pc \in {"returned", "thrown"}

\* the completion attempts made so far, and whether the i-th of them succeeded
AttemptsMade == Len(pending.outcomes)
Succeeded(i) == pending.outcomes[i].error = <<>>

C34_FurtherAttemptOnlyAfterAParseError ==
    [][(Len(pending'.outcomes) > Len(pending.outcomes) /\ AttemptsMade > 0)
          => IsParseError(pending.outcomes[AttemptsMade].error)]_vars

-----------------------------------------------------------------------------
(* WerewolfCommunicationSystem: the log and its per-round history *)

\* the rounds that have a message in the log or a bucket in the history
KnownRounds ==
    {messages[i].round : i \in 1..Len(messages)}
    \cup {communicationHistory[i].round : i \in 1..Len(communicationHistory)}

\* the messages of the log that belong to a round, in log order
LogOfRound(round) == SelectSeq(messages, LAMBDA msg : msg.round = round)

-----------------------------------------------------------------------------
(* WerewolfCommunicationSystem.generateWerewolfCommunication: the player it suggests *)

\* the last call was generateWerewolfCommunication and its message names a target
SuggestsATarget ==
    /\ ret.op = "generateWerewolfCommunication"
    /\ "suggestedTarget" \in DOMAIN ret.result

\* the ids of context.alivePlayers of the last call
AliveIds ==
    {ret.args.context.alivePlayers[i].id : i \in 1..Len(ret.args.context.alivePlayers)}

\* C36: whenever generateWerewolfCommunication returns a suggestedTarget, that player is
\* a member of context.alivePlayers; a player who is no longer alive is never suggested,
\* even if past speeches of that player contain god-role markers.
C36_SuggestedTargetIsAlive ==
    SuggestsATarget => ret.result.suggestedTarget \in AliveIds

\* C37: whenever generateWerewolfCommunication returns a suggestedTarget, that player is
\* not a member of context.werewolfTeam, whatever the speeches, the votes and the alive
\* players.
C37_SuggestedTargetIsNoTeamMember ==
    SuggestsATarget => ~InSeq(ret.result.suggestedTarget, ret.args.context.werewolfTeam)

\* wolf 4 has claimed the seer and wolves are among the alive players; the message
\* names player 3, the first alive player outside the team who is neither a god-role
\* candidate nor a voter against the team
C37_WolfClaimingSeerIsPassedOver ==
    /\ SuggestsATarget
    /\ \E r \in 1..Len(ret.args.allSpeeches) : \E i \in 1..Len(ret.args.allSpeeches[r]) :
          /\ InSeq(ret.args.allSpeeches[r][i].playerId, ret.args.context.werewolfTeam)
          /\ GodRoleReveal(ret.args.allSpeeches[r][i])
    /\ \E w \in AliveIds : InSeq(w, ret.args.context.werewolfTeam)
    /\ ret.result.suggestedTarget = 3
    /\ ret.result.priority = "medium"

-----------------------------------------------------------------------------
(* AIMemorySystem: what the profiles never learn *)

\* the store holds an entry of the given type about the player
Remembered(type, playerId) ==
    \E i \in 1..Len(memories) : memories[i].type = type /\ memories[i].playerId = playerId

\* C38: in every state reachable through the public operations of AIMemorySystem every
\* profile has no suspected role and an empty list of contradictions (neither deduceRoles
\* nor a contradiction detected by analyzeSpeech writes to a profile), so generateStrategy
\* returns an empty targetPlayers for every role.
C38_ProfilesNeverLearnRolesOrContradictions ==
    /\ \A i \in 1..Len(playerProfiles) :
          /\ playerProfiles[i].suspectedRole = "none"
          /\ playerProfiles[i].contradictions = <<>>
    /\ ret.op = "generateStrategy" => ret.result.targetPlayers = <<>>

\* a villager has analysed a speech of player 3 that contradicts an earlier one, has
\* deduced a role for player 3, and then asks for a strategy
C38_StrategyAfterContradictionAndDeduction ==
    /\ ret.op = "generateStrategy"
    /\ gameContext.myRole = "villager"
    /\ Profiled(playerProfiles) = {3}
    /\ Remembered("contradiction", 3)
    /\ Remembered("role_deduction", 3)

\* C39: getThreatAssessment returns the empty list in every state reachable through the
\* public operations of AIMemorySystem, whatever speeches and votes were analysed: no
\* reachable combination of profile fields and vote_pattern entries gives a player a
\* threat total above 0.3.
C39_NoThreatIsEverListed ==
    /\ \A i \in 1..Len(playerProfiles) :
          ThreatOf(memories, gameContext, playerProfiles[i]).threatLevel <= 30
    /\ ret.op = "getThreatAssessment" => ret.result = <<>>

\* a seer has analysed a speech and the votes of player 3 and then asks for the threats
C39_AssessmentAfterSpeechAndVotes ==
    /\ ret.op = "getThreatAssessment"
    /\ gameContext.myRole = "seer"
    /\ 3 \in Profiled(playerProfiles)
    /\ Remembered("vote_pattern", 3)

-----------------------------------------------------------------------------
(* AIMemorySystem.addMemory: the entry just inserted (SpecEvict) *)

\* C40: the entry an addMemory has just inserted is in the store when that addMemory
\* returns, also when the insertion triggers an eviction.
C40_InsertedEntryIsPresentOnReturn ==
    \A i \in 1..Len(trace.steps) : trace.steps[i].present

====
